---- MODULE Spec2Model ----
(***************************************************************************)
(* A model of tetodb: an append-only log of JSON records (engine/storage.go)*)
(* replayed into per-collection document maps (engine/db.go), mutated by   *)
(* the Collection operations.                                              *)
(*                                                                         *)
(* Go maps are reference values: a document is a heap cell, a Collection   *)
(* is a heap object, and the registry and the document maps hold           *)
(* references to them.                                                      *)
(***************************************************************************)
EXTENDS Integers, Sequences, FiniteSets, TLC

(***************************************************************************)
(* Bounds of the model.                                                    *)
(***************************************************************************)
MaxObj == 2      \* Collection objects created by GetCollection between two opens
MaxLog == 2      \* lines in the log file
MaxFaults == 1   \* calls that meet an I/O failure between two opens
MaxRecs == 4     \* length of the record sequences replayed in SpecReplay
MaxSnap == 2     \* records given to Storage.Compact in SpecStorage
MaxOpsLines == 3 \* lines of the log that SpecOps opens
MaxLoadLines == 3 \* lines of the file that SpecLoad opens
MaxWrites == 2   \* writes of one goroutine in SpecAppend
MaxSortLen == 4  \* documents of the slice that SpecSort sorts
MaxMaintLines == 2 \* lines of the log that SpecMaint opens
MaxCalls == 3    \* calls that SpecMaint makes after the open

(***************************************************************************)
(* The document value model.  A value is a tagged token: "s:.." a string,  *)
(* "n:.." a number.  Absent says that a key is not in the map.             *)
(***************************************************************************)
Names == {"a", "b"}
DocIds == {"7", "u1"}
Uuids == {"u1"}
Keys == {"id", "v"}
Absent == "-"
IdToks == {"s:7", "s:u1", "n:7"}
VToks == {"n:1", "n:2"}
Docs == [id : IdToks \cup {Absent}, v : VToks \cup {Absent}]

\* the nil map: StorageRecord.Doc of a tombstone, and a map lookup that misses
NilDoc == [id |-> "nil", v |-> "nil"]

\* fmt.Sprintf("%v", value)
Sprint(t) ==
    CASE t = "s:7" -> "7"
      [] t = "s:u1" -> "u1"
      [] t = "n:7" -> "7"
      [] t = "f:7" -> "7"
      [] t = "n:1" -> "1"
      [] t = "n:2" -> "2"

\* the string id stored as an interface{} value (doc["id"] = id)
Str(id) ==
    CASE id = "7" -> "s:7"
      [] id = "u1" -> "s:u1"

(***************************************************************************)
(* encoding/json: Marshal of a record into one line, Unmarshal of a line.  *)
(***************************************************************************)
EncVal(t) ==
    CASE t = Absent -> Absent
      [] t = "s:7" -> "\"7\""
      [] t = "s:u1" -> "\"u1\""
      [] t = "n:7" -> "7"
      [] t = "n:1" -> "1"
      [] t = "n:2" -> "2"

DecVal(j) ==
    CASE j = Absent -> Absent
      [] j = "\"7\"" -> "s:7"
      [] j = "\"u1\"" -> "s:u1"
      [] j = "7" -> "n:7"
      [] j = "1" -> "n:1"
      [] j = "2" -> "n:2"

JsonNull == [id |-> "null", v |-> "null"]
GarbageLine == [collection |-> "?", id |-> "?", doc |-> JsonNull]

\* a StorageRecord: Collection, ID and Doc (a document value or NilDoc)
StorageRecord(c, id, d) == [Collection |-> c, ID |-> id, Doc |-> d]

Marshal(rec) ==
    [collection |-> rec.Collection,
     id |-> EncVal(Str(rec.ID)),
     doc |-> IF rec.Doc = NilDoc THEN JsonNull
             ELSE [k \in Keys |-> EncVal(rec.Doc[k])]]

Parseable(line) == line # GarbageLine

Unmarshal(line) ==
    StorageRecord(line.collection, Sprint(DecVal(line.id)),
                  IF line.doc = JsonNull THEN NilDoc
                  ELSE [k \in Keys |-> DecVal(line.doc[k])])

\* a line of no bytes, and a line of more bytes than the buffer of a
\* bufio.Scanner holds (whatever the line contains)
EmptyLine == [collection |-> "", id |-> "", doc |-> JsonNull]
LongLine == [collection |-> "?", id |-> "long", doc |-> JsonNull]

TooLong(line) == line = LongLine

(***************************************************************************)
(* Storage.LoadAll.  LoadAll is the loop over scanner.Scan() on lines that *)
(* the scanner can hold: the parseable lines of the file, in file order.   *)
(* StorageLoadAll is the whole call: the scanner stops at a line it cannot *)
(* hold, scanner.Err() is then not nil and the call returns the error.     *)
(***************************************************************************)
RECURSIVE LoadAll(_)
LoadAll(lines) ==
    IF lines = << >> THEN << >>
    ELSE IF Head(lines) = EmptyLine THEN LoadAll(Tail(lines))
    ELSE IF ~Parseable(Head(lines)) THEN LoadAll(Tail(lines))
    ELSE <<Unmarshal(Head(lines))>> \o LoadAll(Tail(lines))

StorageLoadAll(lines) ==
    IF \E i \in DOMAIN lines : TooLong(lines[i])
    THEN [records |-> << >>, ok |-> FALSE]
    ELSE [records |-> LoadAll(lines), ok |-> TRUE]

(***************************************************************************)
(* Database.loadFromDisk: the loop over the records builds tempData.       *)
(***************************************************************************)
EmptyDocs == [id \in DocIds |-> NilDoc]
EmptyTemp == [n \in Names |-> EmptyDocs]

\* an iteration that keeps the document a pair already has
M_ReplayStepFirstWins(temp, record) ==
    IF record.Doc = NilDoc
    THEN [temp EXCEPT ![record.Collection][record.ID] = NilDoc]
    ELSE IF temp[record.Collection][record.ID] # NilDoc THEN temp
    ELSE [temp EXCEPT ![record.Collection][record.ID] = record.Doc]

\* one iteration of the loop: a tombstone deletes, a document overwrites
ReplayStep(temp, record) ==
    IF record.Doc = NilDoc
    THEN [temp EXCEPT ![record.Collection][record.ID] = NilDoc]
    ELSE [temp EXCEPT ![record.Collection][record.ID] = record.Doc]

RECURSIVE ReplayFrom(_, _)
ReplayFrom(temp, records) ==
    IF records = << >> THEN temp
    ELSE ReplayFrom(ReplayStep(temp, Head(records)), Tail(records))

tempDataOf(lines) == ReplayFrom(EmptyTemp, LoadAll(lines))


(***************************************************************************)
(* The state.                                                              *)
(*   heap      the document maps (map[string]interface{}) by reference,    *)
(*             NilDoc where no map is.  References are opaque: after each  *)
(*             call the maps that no Collection holds are dropped and the  *)
(*             others renumbered in the order the Collections hold them    *)
(*   objs      the Collection objects by reference: name and documents,    *)
(*             documents[id] a reference into heap, 0 when id is no key    *)
(*   registry  Database.collections: name -> Collection reference, 0 when  *)
(*             the name is not registered                                  *)
(*   storage   the Storage: the lines of the file at filePath and whether  *)
(*             s.file is an open handle                                    *)
(*   last      the call that returned last and what it returned            *)
(*   faults    the calls that met an I/O failure since the last open       *)
(*   replay    the run of loadFromDisk that SpecReplay steps through       *)
(*   disk      the run of Storage.Append or Storage.Compact that           *)
(*             SpecStorage steps through, the temporary file, and how much *)
(*             of the file at filePath is on stable storage                *)
(*   proc      the goroutines of SpecConc that call Insert, Update and     *)
(*             Delete: where each is in its call                           *)
(*   comp      the goroutine of SpecConc that calls Database.Compact       *)
(***************************************************************************)
VARIABLES heap, objs, registry, storage, last, faults, replay, disk, proc, comp

vars == <<heap, objs, registry, storage, last, faults, replay, disk, proc, comp>>

\* the variables that the calls of Spec leave alone
aux == <<replay, disk, proc, comp>>

\* the variables of the Database and its Collections
dbVars == <<heap, objs, registry, last, faults>>

NoReplay == [pc |-> "none"]
NoDisk == [pc |-> "none"]
NoProc == [pc |-> "none"]
NoComp == [pc |-> "none"]

NameSeq == <<"a", "b">>
IdSeq == <<"7", "u1">>

NoDocuments == [id \in DocIds |-> 0]

\* NewCollection(name, storage)
NewCollection(name) == [name |-> name, documents |-> NoDocuments]

\* NewStorage(path) on a file holding lines
NewStorage(lines) == [file |-> lines, open |-> TRUE]

\* the references a document map can have
NumRefs ==
    LET pairs == Cardinality(Names) * Cardinality(DocIds)
    IN  IF MaxLog + 1 > pairs THEN MaxLog + 1 ELSE pairs
NoHeap == [r \in 1..NumRefs |-> NilDoc]

Handles == 1..Len(objs)
Refs == {r \in 1..NumRefs : heap[r] # NilDoc}

\* the first reference of hp that holds no map (0: none)
FreeRef(hp) ==
    IF \A r \in 1..NumRefs : hp[r] # NilDoc THEN 0
    ELSE CHOOSE r \in 1..NumRefs :
            hp[r] = NilDoc /\ \A q \in 1..(r - 1) : hp[q] # NilDoc

IndexOf(seq, x) == IF \E i \in DOMAIN seq : seq[i] = x
                   THEN CHOOSE i \in DOMAIN seq : seq[i] = x
                   ELSE 0

\* the references the Collections of ob hold, in the order they hold them
RECURSIVE HeldFrom(_, _, _)
HeldFrom(ob, k, held) ==
    IF k > Len(ob) * Len(IdSeq) THEN held
    ELSE LET r == ob[((k - 1) \div Len(IdSeq)) + 1].documents[IdSeq[((k - 1) % Len(IdSeq)) + 1]]
         IN  HeldFrom(ob, k + 1,
                      IF r = 0 \/ IndexOf(held, r) # 0 THEN held ELSE Append(held, r))

\* the memory [heap, objs] with the maps that no Collection of ob holds
\* dropped and the others renumbered by where they are held first
Collect(hp, ob) ==
    LET held == HeldFrom(ob, 1, << >>)
    IN  [heap |-> [i \in 1..NumRefs |-> IF i <= Len(held) THEN hp[held[i]] ELSE NilDoc],
         objs |-> [h \in DOMAIN ob |->
                     [ob[h] EXCEPT !.documents =
                        [id \in DocIds |-> IndexOf(held, ob[h].documents[id])]]]]

\* the documents reachable through the registry under name n
DocsOf(hp, ob, reg, n) ==
    IF reg[n] = 0 THEN EmptyDocs
    ELSE [id \in DocIds |->
            IF ob[reg[n]].documents[id] = 0 THEN NilDoc
            ELSE hp[ob[reg[n]].documents[id]]]

RegistryDocs == [n \in Names |-> DocsOf(heap, objs, registry, n)]

\* the documents of the Collection object h
HandleDocs(hp, ob, h) ==
    [id \in DocIds |->
        IF ob[h].documents[id] = 0 THEN NilDoc ELSE hp[ob[h].documents[id]]]

\* len(c.documents)
CountOf(ob, h) == Cardinality({id \in DocIds : ob[h].documents[id] # 0})

\* the orders in which a range over a map with key set S may visit it
Perms(S) ==
    {f \in [1..Cardinality(S) -> S] : \A i, j \in 1..Cardinality(S) : i # j => f[i] # f[j]}

(***************************************************************************)
(* Storage.Append.  io is what the file system does: "ok", "writeErr"      *)
(* (file.Write fails, nothing is written) or "syncErr" (the line is        *)
(* written, file.Sync fails).  A write on a closed handle fails.           *)
(***************************************************************************)
IOs == {"ok", "writeErr", "syncErr"}
FailKinds == {"writeErr", "syncErr"}

StorageAppend(s, record, io) ==
    LET data == Marshal(record)
    IN  IF ~s.open \/ io = "writeErr"
        THEN [s |-> s, ok |-> FALSE]
        ELSE IF io = "syncErr"
        THEN [s |-> [s EXCEPT !.file = Append(@, data)], ok |-> FALSE]
        ELSE [s |-> [s EXCEPT !.file = Append(@, data)], ok |-> TRUE]

\* Storage.LoadAll() on the Storage s: s.file.Seek fails on a closed handle
LoadAllOn(s) ==
    IF ~s.open THEN [records |-> << >>, ok |-> FALSE] ELSE StorageLoadAll(s.file)

(***************************************************************************)
(* Storage.Compact(records).  step names the first step that fails, or     *)
(* "ok": the file at filePath is the old one until the rename and the new  *)
(* one after it, and s.file is a closed handle unless the reopen succeeds. *)
(***************************************************************************)
CompactSteps == {"ok", "closeErr", "createErr", "writeErr", "closeTmpErr",
                 "renameErr", "reopenErr"}

RECURSIVE MarshalAll(_)
MarshalAll(records) ==
    IF records = << >> THEN << >>
    ELSE <<Marshal(Head(records))>> \o MarshalAll(Tail(records))

\* a rename that leaves the old file at the path
M_StorageCompactKeepsFile(s, records, step) ==
    IF ~s.open \/ step # "ok" THEN [s |-> [s EXCEPT !.open = FALSE], ok |-> FALSE]
    ELSE [s |-> s, ok |-> TRUE]

StorageCompact(s, records, step) ==
    LET lines == MarshalAll(records)
        closed == [s EXCEPT !.open = FALSE]
    IN  IF ~s.open \/ step = "closeErr" THEN [s |-> closed, ok |-> FALSE]
        ELSE IF step \in {"createErr", "writeErr", "closeTmpErr", "renameErr"}
        THEN [s |-> closed, ok |-> FALSE]
        ELSE LET renamed == [closed EXCEPT !.file = lines]
             IN  IF step = "reopenErr" THEN [s |-> renamed, ok |-> FALSE]
                 ELSE [s |-> [renamed EXCEPT !.open = TRUE], ok |-> TRUE]


(***************************************************************************)
(* MatchesFilter and valuesMatch (engine/query.go).  A filter has the      *)
(* shape of a document; Absent says that the filter does not test the key. *)
(***************************************************************************)
\* a comparison by reflect.DeepEqual alone
M_valuesMatchDeepEqual(docValue, filterValue) == docValue = filterValue

valuesMatch(docValue, filterValue) ==
    \/ docValue = filterValue
    \/ Sprint(docValue) = Sprint(filterValue)

MatchesFilter(doc, filter) ==
    \A key \in Keys :
        filter[key] # Absent =>
            /\ doc[key] # Absent
            /\ valuesMatch(doc[key], filter[key])

\* the keys a filter tests
FilterKeys(filter) == {key \in Keys : filter[key] # Absent}

\* a loop that passes over a key the document lacks
RECURSIVE M_MatchesFilterLoopSkips(_, _, _)
M_MatchesFilterLoopSkips(doc, filter, keys) ==
    IF keys = << >> THEN TRUE
    ELSE IF doc[Head(keys)] = Absent THEN M_MatchesFilterLoopSkips(doc, filter, Tail(keys))
    ELSE IF ~valuesMatch(doc[Head(keys)], filter[Head(keys)]) THEN FALSE
    ELSE M_MatchesFilterLoopSkips(doc, filter, Tail(keys))

\* the loop of MatchesFilter, the range visiting the filter's keys in the
\* order keys: it returns at the first key that fails
RECURSIVE MatchesFilterLoop(_, _, _)
MatchesFilterLoop(doc, filter, keys) ==
    IF keys = << >> THEN TRUE
    ELSE IF doc[Head(keys)] = Absent THEN FALSE
    ELSE IF ~valuesMatch(doc[Head(keys)], filter[Head(keys)]) THEN FALSE
    ELSE MatchesFilterLoop(doc, filter, Tail(keys))

(***************************************************************************)
(* The Collection operations, each as the function its code computes from  *)
(* the memory m = [heap, objs, storage] and the call's inputs to the       *)
(* memory and result it leaves.                                            *)
(***************************************************************************)
Mem(hp, ob, s) == [heap |-> hp, objs |-> ob, storage |-> s]

Ret(hp, ob, s, res, n) == [heap |-> hp, objs |-> ob, storage |-> s, res |-> res, n |-> n]

\* an Insert without the duplicate check
M_InsertOverwrites(m, h, r, u, io) ==
    LET hasId == m.heap[r].id # Absent
        id == IF hasId THEN Sprint(m.heap[r].id) ELSE u
        heap1 == IF hasId THEN m.heap ELSE [m.heap EXCEPT ![r].id = Str(u)]
        ap == StorageAppend(m.storage, StorageRecord(m.objs[h].name, id, heap1[r]), io)
    IN  IF ap.ok
        THEN Ret(heap1, [m.objs EXCEPT ![h].documents[id] = r], ap.s, "ok", 0)
        ELSE Ret(heap1, m.objs, ap.s, "ioerr", 0)

\* Collection.Insert(doc): r is the reference of doc, u the UUID that
\* uuid.New() returns when doc has no "id"
Insert(m, h, r, u, io) ==
    LET hasId == m.heap[r].id # Absent
        id == IF hasId THEN Sprint(m.heap[r].id) ELSE u
        heap1 == IF hasId THEN m.heap ELSE [m.heap EXCEPT ![r].id = Str(u)]
    IN  IF m.objs[h].documents[id] # 0
        THEN Ret(heap1, m.objs, m.storage, "duplicate", 0)
        ELSE LET objs1 == [m.objs EXCEPT ![h].documents[id] = r]
                 record == StorageRecord(m.objs[h].name, id, heap1[r])
                 ap == StorageAppend(m.storage, record, io)
             IN  IF ap.ok
                 THEN Ret(heap1, objs1, ap.s, "ok", 0)
                 ELSE Ret(heap1, [objs1 EXCEPT ![h].documents[id] = 0], ap.s, "ioerr", 0)

\* a merge that leaves the id the update carries in the document
M_MergeKeepsUpdateId(doc, update, id) ==
    [key \in Keys |-> IF update[key] # Absent THEN update[key] ELSE doc[key]]

\* the merge of Update and UpdateMany: update's keys written into the
\* document, then doc["id"] = id
Merge(doc, update, id) ==
    [key \in Keys |->
        IF key = "id" THEN Str(id)
        ELSE IF update[key] # Absent THEN update[key] ELSE doc[key]]

\* an Update that appends the update's keys alone, not the merged document
M_UpdateAppendsDiff(m, h, id, update, io) ==
    LET r == m.objs[h].documents[id]
    IN  IF r = 0
        THEN Ret(m.heap, m.objs, m.storage, "notfound", 0)
        ELSE LET heap1 == [m.heap EXCEPT ![r] = Merge(@, update, id)]
                 record == StorageRecord(m.objs[h].name, id, [update EXCEPT !.id = Str(id)])
                 ap == StorageAppend(m.storage, record, io)
             IN  Ret(heap1, m.objs, ap.s, IF ap.ok THEN "ok" ELSE "ioerr", 0)

\* Collection.Update(id, update)
Update(m, h, id, update, io) ==
    LET r == m.objs[h].documents[id]
    IN  IF r = 0
        THEN Ret(m.heap, m.objs, m.storage, "notfound", 0)
        ELSE LET heap1 == [m.heap EXCEPT ![r] = Merge(@, update, id)]
                 record == StorageRecord(m.objs[h].name, id, heap1[r])
                 ap == StorageAppend(m.storage, record, io)
             IN  Ret(heap1, m.objs, ap.s, IF ap.ok THEN "ok" ELSE "ioerr", 0)

\* a Delete that does not look whether the id is there
M_DeleteAbsent(m, h, id, io) ==
    LET objs1 == [m.objs EXCEPT ![h].documents[id] = 0]
        record == StorageRecord(m.objs[h].name, id, NilDoc)
        ap == StorageAppend(m.storage, record, io)
    IN  Ret(m.heap, objs1, ap.s, IF ap.ok THEN "ok" ELSE "ioerr", 0)

\* Collection.Delete(id)
Delete(m, h, id, io) ==
    IF m.objs[h].documents[id] = 0
    THEN Ret(m.heap, m.objs, m.storage, "notfound", 0)
    ELSE LET objs1 == [m.objs EXCEPT ![h].documents[id] = 0]
             record == StorageRecord(m.objs[h].name, id, NilDoc)
             ap == StorageAppend(m.storage, record, io)
         IN  Ret(m.heap, objs1, ap.s, IF ap.ok THEN "ok" ELSE "ioerr", 0)

\* what the file system does to the j-th append of a loop: the failAt-th
\* fails with kind (failAt = 0: none fails)
IoAt(j, failAt, kind) == IF j = failAt THEN kind ELSE "ok"

\* the kinds of failure to ask for at failAt
KindsAt(failAt) == IF failAt = 0 THEN {"ok"} ELSE FailKinds

\* Collection.UpdateMany(filter, update): the loop over c.documents, visited
\* in the order ids; c is the running [heap, objs, storage, res, n]
RECURSIVE UpdateManyLoop(_, _, _, _, _, _, _)
UpdateManyLoop(c, h, ids, filter, update, failAt, kind) ==
    IF ids = << >> \/ c.res # "ok" THEN c
    ELSE LET id == Head(ids)
             r == c.objs[h].documents[id]
         IN  IF ~MatchesFilter(c.heap[r], filter)
             THEN UpdateManyLoop(c, h, Tail(ids), filter, update, failAt, kind)
             ELSE LET heap1 == [c.heap EXCEPT ![r] = Merge(@, update, id)]
                      record == StorageRecord(c.objs[h].name, id, heap1[r])
                      ap == StorageAppend(c.storage, record, IoAt(c.j + 1, failAt, kind))
                      c1 == [c EXCEPT !.heap = heap1, !.storage = ap.s, !.j = @ + 1,
                                      !.res = IF ap.ok THEN "ok" ELSE "ioerr",
                                      !.n = IF ap.ok THEN @ + 1 ELSE @]
                  IN  UpdateManyLoop(c1, h, Tail(ids), filter, update, failAt, kind)

\* an UpdateMany that merges into every document, matching or not
M_UpdateManyAll(m, h, ids, filter, update, failAt, kind) ==
    UpdateManyLoop([heap |-> m.heap, objs |-> m.objs, storage |-> m.storage,
                    res |-> "ok", n |-> 0, j |-> 0],
                   h, ids, [key \in Keys |-> Absent], update, failAt, kind)

UpdateMany(m, h, ids, filter, update, failAt, kind) ==
    UpdateManyLoop([heap |-> m.heap, objs |-> m.objs, storage |-> m.storage,
                    res |-> "ok", n |-> 0, j |-> 0],
                   h, ids, filter, update, failAt, kind)

\* Collection.DeleteMany(filter): idsToDelete collected in the order ids,
\* then the loop that deletes each
RECURSIVE DeleteManyLoop(_, _, _, _, _)
DeleteManyLoop(c, h, idsToDelete, failAt, kind) ==
    IF idsToDelete = << >> \/ c.res # "ok" THEN c
    ELSE LET id == Head(idsToDelete)
             objs1 == [c.objs EXCEPT ![h].documents[id] = 0]
             record == StorageRecord(c.objs[h].name, id, NilDoc)
             ap == StorageAppend(c.storage, record, IoAt(c.j + 1, failAt, kind))
             c1 == [c EXCEPT !.objs = objs1, !.storage = ap.s, !.j = @ + 1,
                             !.res = IF ap.ok THEN "ok" ELSE "ioerr",
                             !.n = IF ap.ok THEN @ + 1 ELSE @]
         IN  DeleteManyLoop(c1, h, Tail(idsToDelete), failAt, kind)

\* a DeleteMany that deletes every document, matching or not
M_DeleteManyAll(m, h, ids, filter, failAt, kind) ==
    DeleteManyLoop([heap |-> m.heap, objs |-> m.objs, storage |-> m.storage,
                    res |-> "ok", n |-> 0, j |-> 0],
                   h, ids, failAt, kind)

DeleteMany(m, h, ids, filter, failAt, kind) ==
    LET Matching(id) == MatchesFilter(m.heap[m.objs[h].documents[id]], filter)
    IN  DeleteManyLoop([heap |-> m.heap, objs |-> m.objs, storage |-> m.storage,
                        res |-> "ok", n |-> 0, j |-> 0],
                       h, SelectSeq(ids, Matching), failAt, kind)


(***************************************************************************)
(* The Database operations (engine/db.go).                                 *)
(***************************************************************************)
\* Database.DropCollection(name): the loop that deletes every document,
\* visited in the order ids; the registry entry goes when no Delete failed
RECURSIVE DropLoop(_, _, _, _, _)
DropLoop(c, h, ids, failAt, kind) ==
    IF ids = << >> \/ c.res # "ok" THEN c
    ELSE LET d == Delete(Mem(c.heap, c.objs, c.storage), h, Head(ids),
                         IoAt(c.j + 1, failAt, kind))
             c1 == [c EXCEPT !.objs = d.objs, !.storage = d.storage, !.j = @ + 1,
                             !.res = d.res, !.n = IF d.res = "ok" THEN @ + 1 ELSE @]
         IN  DropLoop(c1, h, Tail(ids), failAt, kind)

DropCollection(m, reg, name, ids, failAt, kind) ==
    IF reg[name] = 0
    THEN [heap |-> m.heap, objs |-> m.objs, storage |-> m.storage,
          registry |-> reg, res |-> "ok", n |-> 0]
    ELSE LET c == DropLoop([heap |-> m.heap, objs |-> m.objs, storage |-> m.storage,
                            res |-> "ok", n |-> 0, j |-> 0],
                           reg[name], ids, failAt, kind)
         IN  [heap |-> c.heap, objs |-> c.objs, storage |-> c.storage,
              registry |-> IF c.res = "ok" THEN [reg EXCEPT ![name] = 0] ELSE reg,
              res |-> c.res, n |-> c.n]

\* the (name, id) pairs of the documents reachable through the registry
LivePairs(ob, reg) ==
    {p \in Names \X DocIds : reg[p[1]] # 0 /\ ob[reg[p[1]]].documents[p[2]] # 0}

\* the orders of the nested range of Database.Compact: collection by
\* collection, the documents of one collection together
CompactOrders(ob, reg) ==
    {f \in Perms(LivePairs(ob, reg)) :
        \A i, j, k \in DOMAIN f : (i < j /\ j < k /\ f[i][1] = f[k][1]) => f[j][1] = f[i][1]}

\* the records Database.Compact collects: each holds the document map itself
SnapshotRecords(ob, reg, order) ==
    [i \in DOMAIN order |->
        [Collection |-> order[i][1], ID |-> order[i][2],
         Ref |-> ob[reg[order[i][1]]].documents[order[i][2]]]]

\* the records as Storage.Compact marshals them: the maps' contents then
Deref(hp, snapshot) ==
    [i \in DOMAIN snapshot |->
        StorageRecord(snapshot[i].Collection, snapshot[i].ID, hp[snapshot[i].Ref])]

\* a Compact whose loop leaves out the document it visits last
M_CompactSkipsLast(m, reg, order, step) ==
    StorageCompact(m.storage,
                   Deref(m.heap, SnapshotRecords(m.objs, reg,
                                                 SubSeq(order, 1, Len(order) - 1))),
                   step)

\* Database.Compact()
Compact(m, reg, order, step) ==
    StorageCompact(m.storage, Deref(m.heap, SnapshotRecords(m.objs, reg, order)), step)

\* a Stats that leaves the total at the count of the last collection
M_StatsTotalOverwritten(ob, reg) ==
    LET names == {n \in Names : reg[n] # 0}
        collStats == [n \in names |-> CountOf(ob, reg[n])]
    IN  [collections |-> Cardinality(names),
         documents |-> IF names = {} THEN 0
                       ELSE collStats[CHOOSE n \in names : \A o \in names : IndexOf(NameSeq, o) <= IndexOf(NameSeq, n)],
         collection_stats |-> collStats]

\* totalDocs after the loop of Database.Stats over the names left
RECURSIVE StatsTotal(_, _, _)
StatsTotal(ob, reg, left) ==
    IF left = {} THEN 0
    ELSE LET name == CHOOSE n \in left : TRUE
         IN  CountOf(ob, reg[name]) + StatsTotal(ob, reg, left \ {name})

\* Database.Stats(): len(db.collections), and per registered Collection
\* len(coll.documents), summed up in totalDocs
Stats(ob, reg) ==
    LET names == {n \in Names : reg[n] # 0}
    IN  [collections |-> Cardinality(names),
         documents |-> StatsTotal(ob, reg, names),
         collection_stats |-> [n \in names |-> CountOf(ob, reg[n])]]

\* Database.ListCollections(): the keys of db.collections
ListCollections(reg) == {n \in Names : reg[n] # 0}

\* Storage.Close and Database.Close: closing a closed file is an error
Close(s) ==
    IF s.open THEN [s |-> [s EXCEPT !.open = FALSE], ok |-> TRUE]
    ELSE [s |-> s, ok |-> FALSE]

(***************************************************************************)
(* OpenDatabase(path): NewStorage, then loadFromDisk registers one         *)
(* Collection per name of tempData that has documents.                     *)
(***************************************************************************)
AllPairs ==
    [i \in 1..(Len(NameSeq) * Len(IdSeq)) |->
        <<NameSeq[((i - 1) \div Len(IdSeq)) + 1], IdSeq[((i - 1) % Len(IdSeq)) + 1]>>]

\* a second loop that creates a Collection for every name
M_CollectionsOfEveryName(tempData) ==
    LET Survives(p) == tempData[p[1]][p[2]] # NilDoc
        pairs == SelectSeq(AllPairs, Survives)
    IN  [heap |-> [r \in 1..NumRefs |->
                     IF r <= Len(pairs) THEN tempData[pairs[r][1]][pairs[r][2]]
                     ELSE NilDoc],
         objs |-> [i \in DOMAIN NameSeq |->
                     [name |-> NameSeq[i],
                      documents |-> [id \in DocIds |-> IndexOf(pairs, <<NameSeq[i], id>>)]]],
         registry |-> [n \in Names |-> IndexOf(NameSeq, n)]]

\* the second loop: one Collection per name of tempData with len(docs) > 0
CollectionsOf(tempData) ==
    LET Survives(p) == tempData[p[1]][p[2]] # NilDoc
        HasDocs(n) == \E id \in DocIds : tempData[n][id] # NilDoc
        pairs == SelectSeq(AllPairs, Survives)
        names == SelectSeq(NameSeq, HasDocs)
    IN  [heap |-> [r \in 1..NumRefs |->
                     IF r <= Len(pairs) THEN tempData[pairs[r][1]][pairs[r][2]]
                     ELSE NilDoc],
         objs |-> [i \in DOMAIN names |->
                     [name |-> names[i],
                      documents |-> [id \in DocIds |-> IndexOf(pairs, <<names[i], id>>)]]],
         registry |-> [n \in Names |-> IndexOf(names, n)]]

loadFromDisk(lines) == CollectionsOf(tempDataOf(lines))


(***************************************************************************)
(* Spec: the calls of one caller, one after the other.  A caller holds     *)
(* every Collection that GetCollection returned to it and may use it in    *)
(* any later call; every document it inserts is a map it has just built.   *)
(***************************************************************************)
InputDocs == [id : {Absent, "n:7"}, v : {"n:1"}]
Partials == {[id |-> Absent, v |-> "n:2"], [id |-> "s:u1", v |-> Absent]}
Filters == [id : {Absent}, v : {Absent, "n:1"}]

M == Mem(heap, objs, storage)

IdsOf(h) == {id \in DocIds : objs[h].documents[id] # 0}

\* the ids that appear in a Collection or in the log
UsedIds ==
    UNION {IdsOf(h) : h \in Handles}
        \cup {Unmarshal(storage.file[i]).ID : i \in DOMAIN storage.file}

Called(op, res, n) == [op |-> op, res |-> res, n |-> n]

Init ==
    /\ heap = NoHeap
    /\ objs = << >>
    /\ registry = [n \in Names |-> 0]
    /\ storage = NewStorage(<< >>)
    /\ last = Called("OpenDatabase", "ok", 0)
    /\ faults = 0
    /\ replay = NoReplay
    /\ disk = NoDisk
    /\ proc = NoProc
    /\ comp = NoComp

\* Database.GetCollection(name)
CallGetCollection(name) ==
    /\ IF registry[name] # 0
       THEN /\ UNCHANGED <<objs, registry>>
            /\ last' = Called("GetCollection", "ok", 0)
       ELSE /\ Len(objs) < MaxObj
            /\ objs' = Append(objs, NewCollection(name))
            /\ registry' = [registry EXCEPT ![name] = Len(objs) + 1]
            /\ last' = Called("GetCollection", "ok", 0)
    /\ UNCHANGED <<heap, storage, faults, aux>>

\* at most MaxFaults calls meet an I/O failure between two opens; a failure
\* of the file system is only asked for where the call does I/O on an open
\* file, so that the call fails by it
Faulty(asked, failed) ==
    /\ asked => (storage.open /\ failed)
    /\ failed => faults < MaxFaults
    /\ faults' = IF failed THEN faults + 1 ELSE faults

Returns(ret, op, asked) ==
    /\ Faulty(asked, ret.res = "ioerr")
    /\ LET c == Collect(ret.heap, ret.objs)
       IN  heap' = c.heap /\ objs' = c.objs
    /\ storage' = ret.storage
    /\ last' = Called(op, ret.res, ret.n)
    /\ UNCHANGED <<registry, aux>>

\* c.Insert(doc) with a document map the caller has just built
CallInsertNew(h, doc, u, io) ==
    /\ FreeRef(heap) # 0
    /\ Len(storage.file) < MaxLog
    /\ doc.id = Absent => u \notin UsedIds
    /\ Returns(Insert(Mem([heap EXCEPT ![FreeRef(heap)] = doc], objs, storage),
                      h, FreeRef(heap), u, io),
               "Insert", io # "ok")

CallUpdate(h, id, update, io) ==
    /\ Len(storage.file) < MaxLog
    /\ Returns(Update(M, h, id, update, io), "Update", io # "ok")

CallDelete(h, id, io) ==
    /\ Len(storage.file) < MaxLog
    /\ Returns(Delete(M, h, id, io), "Delete", io # "ok")

CallUpdateMany(h, ids, filter, update, failAt, kind) ==
    /\ Len(storage.file) + Len(ids) <= MaxLog
    /\ Returns(UpdateMany(M, h, ids, filter, update, failAt, kind), "UpdateMany", failAt # 0)

CallDeleteMany(h, ids, filter, failAt, kind) ==
    /\ Len(storage.file) + Len(ids) <= MaxLog
    /\ Returns(DeleteMany(M, h, ids, filter, failAt, kind), "DeleteMany", failAt # 0)

CallDropCollection(name, ids, failAt, kind) ==
    /\ Len(storage.file) + Len(ids) <= MaxLog
    /\ LET ret == DropCollection(M, registry, name, ids, failAt, kind)
       IN  /\ Faulty(failAt # 0, ret.res = "ioerr")
           /\ LET c == Collect(ret.heap, ret.objs)
              IN  heap' = c.heap /\ objs' = c.objs
           /\ storage' = ret.storage
           /\ registry' = ret.registry
           /\ last' = Called("DropCollection", ret.res, ret.n)
    /\ UNCHANGED aux

CallCompact(order, step) ==
    /\ LET ret == Compact(M, registry, order, step)
       IN  /\ Faulty(step # "ok", ~ret.ok)
           /\ storage' = ret.s
           /\ last' = Called("Compact", IF ret.ok THEN "ok" ELSE "ioerr", 0)
    /\ UNCHANGED <<heap, objs, registry, aux>>

CallClose ==
    /\ LET ret == Close(storage)
       IN  /\ storage' = ret.s
           /\ last' = Called("Close", IF ret.ok THEN "ok" ELSE "ioerr", 0)
    /\ UNCHANGED <<heap, objs, registry, faults, aux>>

\* OpenDatabase(path) once the file is closed: a new Database, and the
\* Collections and document maps of the old one are gone
CallOpenDatabase ==
    /\ ~storage.open
    /\ LET db == loadFromDisk(storage.file)
       IN  /\ heap' = db.heap
           /\ objs' = db.objs
           /\ registry' = db.registry
    /\ storage' = NewStorage(storage.file)
    /\ last' = Called("OpenDatabase", "ok", 0)
    /\ faults' = 0
    /\ UNCHANGED aux

Next ==
    \/ \E name \in Names : CallGetCollection(name)
    \/ \E h \in Handles, doc \in InputDocs, u \in Uuids, io \in IOs :
          CallInsertNew(h, doc, u, io)
    \/ \E h \in Handles, id \in DocIds, update \in Partials, io \in IOs :
          CallUpdate(h, id, update, io)
    \/ \E h \in Handles, id \in DocIds, io \in IOs : CallDelete(h, id, io)
    \/ \E h \in Handles, filter \in Filters, update \in Partials :
          \E ids \in Perms(IdsOf(h)) : \E failAt \in 0..Len(ids) : \E kind \in KindsAt(failAt) :
             CallUpdateMany(h, ids, filter, update, failAt, kind)
    \/ \E h \in Handles, filter \in Filters :
          \E ids \in Perms(IdsOf(h)) : \E failAt \in 0..Len(ids) : \E kind \in KindsAt(failAt) :
             CallDeleteMany(h, ids, filter, failAt, kind)
    \/ \E name \in Names :
          \E ids \in Perms(IF registry[name] = 0 THEN {} ELSE IdsOf(registry[name])) :
             \E failAt \in 0..Len(ids) : \E kind \in KindsAt(failAt) :
                CallDropCollection(name, ids, failAt, kind)
    \/ \E order \in CompactOrders(objs, registry), step \in CompactSteps :
          CallCompact(order, step)
    \/ CallClose
    \/ CallOpenDatabase

Spec == Init /\ [][Next]_vars


(***************************************************************************)
(* SpecReplay: OpenDatabase on a file of up to MaxRecs lines, loadFromDisk *)
(* taken one step at a time: LoadAll, one iteration of the loop over the   *)
(* records per step, then the loop that creates the Collections.           *)
(***************************************************************************)
ReplayDocs(id) == {NilDoc, [id |-> Str(id), v |-> "n:1"], [id |-> Str(id), v |-> "n:2"]}

ReplayLines ==
    {Marshal(StorageRecord(x[1], x[2], x[3])) :
        x \in {y \in Names \X DocIds \X Docs : y[3] \in ReplayDocs(y[2])}
               \cup {z \in Names \X DocIds \X {NilDoc} : TRUE}}
    \cup {GarbageLine}

ReplayFiles == UNION {[1..n -> ReplayLines] : n \in 0..MaxRecs}

InitReplay ==
    /\ heap = NoHeap
    /\ objs = << >>
    /\ registry = [n \in Names |-> 0]
    /\ storage \in {NewStorage(f) : f \in ReplayFiles}
    /\ last = Called("NewStorage", "ok", 0)
    /\ faults = 0
    /\ replay = [pc |-> "LoadAll", records |-> << >>, i |-> 0, tempData |-> EmptyTemp]
    /\ disk = NoDisk
    /\ proc = NoProc
    /\ comp = NoComp

ReplayLoadAll ==
    /\ replay.pc = "LoadAll"
    /\ replay' = [replay EXCEPT !.pc = "range", !.records = LoadAll(storage.file), !.i = 1]
    /\ UNCHANGED <<dbVars, storage, disk, proc, comp>>

ReplayRecord ==
    /\ replay.pc = "range"
    /\ replay.i <= Len(replay.records)
    /\ replay' = [replay EXCEPT !.tempData = ReplayStep(@, replay.records[replay.i]),
                                !.i = @ + 1]
    /\ UNCHANGED <<dbVars, storage, disk, proc, comp>>

ReplayCollections ==
    /\ replay.pc = "range"
    /\ replay.i > Len(replay.records)
    /\ LET db == CollectionsOf(replay.tempData)
       IN  heap' = db.heap /\ objs' = db.objs /\ registry' = db.registry
    /\ replay' = [replay EXCEPT !.pc = "done"]
    /\ last' = Called("OpenDatabase", "ok", 0)
    /\ UNCHANGED <<storage, faults, disk, proc, comp>>

NextReplay == ReplayLoadAll \/ ReplayRecord \/ ReplayCollections

SpecReplay == InitReplay /\ [][NextReplay]_vars


(***************************************************************************)
(* SpecStorage: the file-backed Storage, Append and Compact taken one      *)
(* system call at a time, with a crash possible between any two of them.   *)
(* disk.stable is the number of leading lines of the file at filePath that *)
(* are on stable storage: File.Sync moves it to the end of the file; a     *)
(* file that os.Rename has just put at filePath was never synced.  A crash *)
(* keeps the stable lines and any number of the lines after them.          *)
(*   disk.pc      the system call the running call makes next              *)
(*   disk.line    the line Append is writing                               *)
(*   disk.snap    the lines Compact is writing, disk.k the next of them    *)
(*   disk.tmp     the lines of filePath + ".tmp", disk.tmpExists           *)
(*   disk.op, disk.res   the call that runs or returned last, and what it  *)
(*                returned                                                 *)
(*   disk.wrote, disk.synced   whether the last Append's Write and Sync    *)
(*                succeeded                                                *)
(*   disk.acked   the <<position, line>> of the Appends that returned nil  *)
(*                since the file at filePath was last replaced             *)
(*   disk.pre, disk.preStable, disk.phase   the file when the running (or  *)
(*                crashed) Compact was called, how much of it was stable,  *)
(*                and whether its rename has happened                      *)
(***************************************************************************)
StorageRecords ==
    {StorageRecord("a", "7", [id |-> "s:7", v |-> "n:1"]),
     StorageRecord("a", "u1", [id |-> "s:u1", v |-> "n:2"]),
     StorageRecord("a", "7", NilDoc)}

Snapshots == UNION {[1..n -> StorageRecords] : n \in 0..MaxSnap}

Prefixes(lines, from) == {SubSeq(lines, 1, n) : n \in from..Len(lines)}

\* M_FileSync leaves the written data in the page cache
M_FileSync(stable, file, ok) == stable

\* s.file.Sync(): the whole file is on stable storage when it succeeds
FileSync(stable, file, ok) == IF ok THEN Len(file) ELSE stable

InitStorage ==
    /\ heap = NoHeap
    /\ objs = << >>
    /\ registry = [n \in Names |-> 0]
    /\ storage = NewStorage(<< >>)
    /\ last = Called("NewStorage", "ok", 0)
    /\ faults = 0
    /\ replay = NoReplay
    /\ disk = [pc |-> "idle", line |-> GarbageLine, snap |-> << >>, k |-> 0,
               tmp |-> << >>, tmpExists |-> FALSE, stable |-> 0,
               op |-> "NewStorage", res |-> "ok", wrote |-> FALSE, synced |-> FALSE, acked |-> {},
               pre |-> << >>, preStable |-> 0, phase |-> "none"]
    /\ proc = NoProc
    /\ comp = NoComp

Untouched == UNCHANGED <<dbVars, replay, proc, comp>>

\* the call returns res: its locals are gone
Returned(d, res) ==
    [d EXCEPT !.pc = "idle", !.res = res, !.phase = "none", !.line = GarbageLine,
              !.snap = << >>, !.k = 0, !.pre = << >>, !.preStable = 0]

\* Storage.Append(record): s.mu.Lock, json.Marshal
AppendCall(record) ==
    /\ disk.pc = "idle"
    /\ Len(storage.file) < MaxLog
    /\ disk' = [disk EXCEPT !.pc = "Write", !.op = "Append", !.line = Marshal(record),
                            !.wrote = FALSE, !.synced = FALSE]
    /\ UNCHANGED storage /\ Untouched

\* s.file.Write(data): an error returns at once
AppendWrite(ok) ==
    /\ disk.pc = "Write"
    /\ IF storage.open /\ ok
       THEN /\ storage' = [storage EXCEPT !.file = Append(@, disk.line)]
            /\ disk' = [disk EXCEPT !.pc = "Sync", !.wrote = TRUE]
       ELSE /\ disk' = Returned(disk, "err")
            /\ UNCHANGED storage
    /\ Untouched

\* s.file.Sync(), then return
AppendSync(ok) ==
    /\ disk.pc = "Sync"
    /\ LET synced == [disk EXCEPT !.stable = FileSync(@, storage.file, ok),
                                  !.synced = ok]
       IN  disk' = IF ok
                   THEN Returned([synced EXCEPT !.acked =
                                     @ \cup {<<Len(storage.file), disk.line>>}], "ok")
                   ELSE Returned(synced, "err")
    /\ UNCHANGED storage /\ Untouched

\* Storage.Compact(records): s.mu.Lock
CompactCall(records) ==
    /\ disk.pc = "idle"
    /\ disk' = [disk EXCEPT !.pc = "Close", !.op = "Compact", !.snap = MarshalAll(records),
                            !.wrote = FALSE, !.synced = FALSE,
                            !.pre = storage.file, !.preStable = disk.stable,
                            !.phase = "before"]
    /\ UNCHANGED storage /\ Untouched

\* s.file.Close(): closing a closed file is an error
CompactClose(ok) ==
    /\ disk.pc = "Close"
    /\ storage' = [storage EXCEPT !.open = FALSE]
    /\ disk' = IF storage.open /\ ok THEN [disk EXCEPT !.pc = "Create"]
               ELSE Returned(disk, "err")
    /\ Untouched

\* os.Create(tempPath)
CompactCreate(ok) ==
    /\ disk.pc = "Create"
    /\ disk' = IF ok THEN [disk EXCEPT !.pc = "WriteTmp", !.tmp = << >>,
                                       !.tmpExists = TRUE, !.k = 1]
               ELSE Returned(disk, "err")
    /\ UNCHANGED storage /\ Untouched

\* tempFile.Write(data) for the next record; on an error the temporary
\* file is closed and removed
CompactWriteTmp(ok) ==
    /\ disk.pc = "WriteTmp"
    /\ disk.k <= Len(disk.snap)
    /\ disk' = IF ok THEN [disk EXCEPT !.tmp = Append(@, disk.snap[disk.k]), !.k = @ + 1]
               ELSE Returned([disk EXCEPT !.tmp = << >>, !.tmpExists = FALSE], "err")
    /\ UNCHANGED storage /\ Untouched

\* tempFile.Close(); on an error the temporary file is removed
CompactCloseTmp(ok) ==
    /\ disk.pc = "WriteTmp"
    /\ disk.k > Len(disk.snap)
    /\ disk' = IF ok THEN [disk EXCEPT !.pc = "Rename"]
               ELSE Returned([disk EXCEPT !.tmp = << >>, !.tmpExists = FALSE], "err")
    /\ UNCHANGED storage /\ Untouched

\* os.Rename(tempPath, s.filePath); on an error the temporary file stays
CompactRename(ok) ==
    /\ disk.pc = "Rename"
    /\ IF ok
       THEN /\ storage' = [storage EXCEPT !.file = disk.tmp]
            /\ disk' = [disk EXCEPT !.pc = "Reopen", !.tmp = << >>, !.tmpExists = FALSE,
                                    !.stable = 0, !.acked = {}, !.phase = "after"]
       ELSE /\ disk' = Returned(disk, "err")
            /\ UNCHANGED storage
    /\ Untouched

\* os.OpenFile(s.filePath, O_RDWR|O_APPEND), then return
CompactReopen(ok) ==
    /\ disk.pc = "Reopen"
    /\ storage' = [storage EXCEPT !.open = ok]
    /\ disk' = Returned(disk, IF ok THEN "ok" ELSE "err")
    /\ Untouched

\* Storage.Close()
StorageClose ==
    /\ disk.pc = "idle"
    /\ storage.open
    /\ storage' = [storage EXCEPT !.open = FALSE]
    /\ disk' = Returned([disk EXCEPT !.op = "Close", !.wrote = FALSE, !.synced = FALSE], "ok")
    /\ Untouched

\* the machine stops: the stable lines of each file survive, and any number
\* of the lines written after them
Crash ==
    /\ disk.pc \notin {"idle", "crashed"} \/ (disk.pc = "idle" /\ disk.stable < Len(storage.file))
    /\ \E f \in Prefixes(storage.file, disk.stable), t \in Prefixes(disk.tmp, 0) :
          /\ storage' = [file |-> f, open |-> FALSE]
          /\ disk' = [disk EXCEPT !.pc = "crashed", !.tmp = t]
    /\ Untouched

\* NewStorage(path) in a new process
Restart ==
    /\ disk.pc = "crashed" \/ (disk.pc = "idle" /\ ~storage.open)
    /\ storage' = NewStorage(storage.file)
    /\ disk' = Returned([disk EXCEPT !.stable = IF disk.pc = "crashed" THEN Len(storage.file) ELSE @,
                                     !.op = "NewStorage", !.wrote = FALSE, !.synced = FALSE],
                        "ok")
    /\ Untouched

NextStorage ==
    \/ \E record \in StorageRecords : AppendCall(record)
    \/ \E ok \in BOOLEAN : AppendWrite(ok)
    \/ \E ok \in BOOLEAN : AppendSync(ok)
    \/ \E records \in Snapshots : CompactCall(records)
    \/ \E ok \in BOOLEAN : CompactClose(ok)
    \/ \E ok \in BOOLEAN : CompactCreate(ok)
    \/ \E ok \in BOOLEAN : CompactWriteTmp(ok)
    \/ \E ok \in BOOLEAN : CompactCloseTmp(ok)
    \/ \E ok \in BOOLEAN : CompactRename(ok)
    \/ \E ok \in BOOLEAN : CompactReopen(ok)
    \/ StorageClose
    \/ Crash
    \/ Restart

SpecStorage == InitStorage /\ [][NextStorage]_vars


(***************************************************************************)
(* SpecConc: goroutines that call Insert, Update and Delete on the         *)
(* Collections "a" and "b" while another calls Database.Compact.  A writer *)
(* takes c.mu, changes the map, and in a later step appends under s.mu and *)
(* returns.  Database.Compact ranges over the Collections one at a time,   *)
(* reading coll.documents without c.mu, and then Storage.Compact rewrites  *)
(* the file under s.mu.  The read of a map that a writer is changing is a  *)
(* data race: it sees the map before or after the change, or the runtime   *)
(* stops the process (concurrent map iteration and map write).             *)
(*   proc[w]    pc ("idle", "append", "dead"), op, h and id of the call    *)
(*   comp       pc ("idle", "range", "dead"), the records collected so far *)
(*              (each holds the document map itself) and the names that    *)
(*              the range has still to visit                               *)
(***************************************************************************)
Writers == {"w1", "w2"}

\* the documents the writers insert: both Collections get the same id
ConcDocs == {[id |-> "n:7", v |-> "n:1"]}

IdleProc == [pc |-> "idle", op |-> "-", h |-> 0, id |-> "-"]
IdleComp == [pc |-> "idle", snap |-> << >>, left |-> {}]

\* the references of held and then those of the records of snap
RECURSIVE SnapHeld(_, _, _)
SnapHeld(snap, k, held) ==
    IF k > Len(snap) THEN held
    ELSE SnapHeld(snap, k + 1,
                  IF IndexOf(held, snap[k].Ref) # 0 THEN held
                  ELSE Append(held, snap[k].Ref))

\* Collect for a memory in which the records of snap hold maps too
ConcCollect(hp, ob, snap) ==
    LET held == SnapHeld(snap, 1, HeldFrom(ob, 1, << >>))
    IN  [heap |-> [i \in 1..NumRefs |-> IF i <= Len(held) THEN hp[held[i]] ELSE NilDoc],
         objs |-> [h \in DOMAIN ob |->
                     [ob[h] EXCEPT !.documents =
                        [id \in DocIds |-> IndexOf(held, ob[h].documents[id])]]],
         snap |-> [i \in DOMAIN snap |-> [snap[i] EXCEPT !.Ref = IndexOf(held, @)]]]

\* heap, objs and comp.snap after a step that leaves hp, ob and snap
Leaves(hp, ob, cp) ==
    LET c == ConcCollect(hp, ob, cp.snap)
    IN  heap' = c.heap /\ objs' = c.objs /\ comp' = [cp EXCEPT !.snap = c.snap]

InitConc ==
    /\ heap = NoHeap
    /\ objs = <<NewCollection("a"), NewCollection("b")>>
    /\ registry = [n \in Names |-> IndexOf(NameSeq, n)]
    /\ storage = NewStorage(<< >>)
    /\ last = Called("OpenDatabase", "ok", 0)
    /\ faults = 0
    /\ replay = NoReplay
    /\ disk = NoDisk
    /\ proc = [w \in Writers |-> IdleProc]
    /\ comp = IdleComp

\* c.mu is free for a writer when no other writer is inside a call on h
Unlocked(h) == \A w \in Writers : proc[w].pc = "append" => proc[w].h # h

\* the appends that calls under way have still to make
Pending == Cardinality({w \in Writers : proc[w].pc = "append"})

Begins(w) ==
    /\ proc[w].pc = "idle"
    /\ Len(storage.file) + Pending < MaxLog

\* a writer's call returns: c.mu is released
Ends(w, failed) ==
    /\ failed => faults < MaxFaults
    /\ faults' = IF failed THEN faults + 1 ELSE faults
    /\ proc' = [proc EXCEPT ![w] = IdleProc]

\* Insert up to c.documents[id] = doc, for a document map the caller has
\* just built; a duplicate id returns at once
InsertLock(w, h, doc, u) ==
    /\ Begins(w)
    /\ Unlocked(h)
    /\ FreeRef(heap) # 0
    /\ doc.id = Absent => u \notin UsedIds
    /\ LET id == IF doc.id = Absent THEN u ELSE Sprint(doc.id)
           r == FreeRef(heap)
           stored == IF doc.id = Absent THEN [doc EXCEPT !.id = Str(u)] ELSE doc
       IN  IF objs[h].documents[id] # 0
           THEN /\ last' = Called("Insert", "duplicate", 0)
                /\ UNCHANGED <<heap, objs, proc, comp>>
           ELSE /\ Leaves([heap EXCEPT ![r] = stored],
                          [objs EXCEPT ![h].documents[id] = r], comp)
                /\ proc' = [proc EXCEPT ![w] = [pc |-> "append", op |-> "Insert",
                                                h |-> h, id |-> id]]
                /\ UNCHANGED last
    /\ UNCHANGED <<registry, storage, faults, replay, disk>>

\* Insert from c.storage.Append(record) to its return, the rollback included
InsertAppend(w, io) ==
    /\ proc[w].pc = "append" /\ proc[w].op = "Insert"
    /\ LET h == proc[w].h
           id == proc[w].id
           ap == StorageAppend(storage, StorageRecord(objs[h].name, id,
                                                      heap[objs[h].documents[id]]), io)
       IN  /\ io # "ok" => storage.open
           /\ Ends(w, ~ap.ok)
           /\ storage' = ap.s
           /\ Leaves(heap, IF ap.ok THEN objs ELSE [objs EXCEPT ![h].documents[id] = 0], comp)
           /\ last' = Called("Insert", IF ap.ok THEN "ok" ELSE "ioerr", 0)
    /\ UNCHANGED <<registry, replay, disk>>

\* Update up to the merge into the stored map; an id that is no key
\* returns at once
UpdateLock(w, h, id, update) ==
    /\ Begins(w)
    /\ Unlocked(h)
    /\ IF objs[h].documents[id] = 0
       THEN /\ last' = Called("Update", "notfound", 0)
            /\ UNCHANGED <<heap, proc>>
       ELSE /\ heap' = [heap EXCEPT ![objs[h].documents[id]] = Merge(@, update, id)]
            /\ proc' = [proc EXCEPT ![w] = [pc |-> "append", op |-> "Update",
                                            h |-> h, id |-> id]]
            /\ UNCHANGED last
    /\ UNCHANGED <<objs, comp, registry, storage, faults, replay, disk>>

\* Update from c.storage.Append(record) to its return
UpdateAppend(w, io) ==
    /\ proc[w].pc = "append" /\ proc[w].op = "Update"
    /\ LET h == proc[w].h
           id == proc[w].id
           ap == StorageAppend(storage, StorageRecord(objs[h].name, id,
                                                      heap[objs[h].documents[id]]), io)
       IN  /\ io # "ok" => storage.open
           /\ Ends(w, ~ap.ok)
           /\ storage' = ap.s
           /\ last' = Called("Update", IF ap.ok THEN "ok" ELSE "ioerr", 0)
    /\ UNCHANGED <<heap, objs, comp, registry, replay, disk>>

\* Delete up to delete(c.documents, id); an id that is no key returns at once
DeleteLock(w, h, id) ==
    /\ Begins(w)
    /\ Unlocked(h)
    /\ IF objs[h].documents[id] = 0
       THEN /\ last' = Called("Delete", "notfound", 0)
            /\ UNCHANGED <<heap, objs, proc, comp>>
       ELSE /\ Leaves(heap, [objs EXCEPT ![h].documents[id] = 0], comp)
            /\ proc' = [proc EXCEPT ![w] = [pc |-> "append", op |-> "Delete",
                                            h |-> h, id |-> id]]
            /\ UNCHANGED last
    /\ UNCHANGED <<registry, storage, faults, replay, disk>>

\* Delete from c.storage.Append(record) to its return
DeleteAppend(w, io) ==
    /\ proc[w].pc = "append" /\ proc[w].op = "Delete"
    /\ LET ap == StorageAppend(storage, StorageRecord(objs[proc[w].h].name, proc[w].id,
                                                      NilDoc), io)
       IN  /\ io # "ok" => storage.open
           /\ Ends(w, ~ap.ok)
           /\ storage' = ap.s
           /\ last' = Called("Delete", IF ap.ok THEN "ok" ELSE "ioerr", 0)
    /\ UNCHANGED <<heap, objs, comp, registry, replay, disk>>

\* Database.Compact(): db.mu.RLock
CompactLock ==
    /\ comp.pc = "idle"
    /\ comp' = [pc |-> "range", snap |-> << >>, left |-> {n \in Names : registry[n] # 0}]
    /\ UNCHANGED <<dbVars, storage, replay, disk, proc>>

\* a writer is inside a call that changes the map of Collection n
Racing(n) == \E w \in Writers : proc[w].pc = "append" /\ proc[w].h = registry[n]

\* the range over coll.documents of one Collection, in order ids
CompactRange(n, ids) ==
    /\ comp.pc = "range"
    /\ n \in comp.left
    /\ comp' = [comp EXCEPT !.left = @ \ {n},
                            !.snap = @ \o [i \in DOMAIN ids |->
                                              [Collection |-> n, ID |-> ids[i],
                                               Ref |-> objs[registry[n]].documents[ids[i]]]]]
    /\ UNCHANGED <<dbVars, storage, replay, disk, proc>>

\* the runtime finds the range and a map write at once and stops the
\* process: its memory is gone, the file stays
CompactRangeFatal(n) ==
    /\ comp.pc = "range"
    /\ n \in comp.left
    /\ Racing(n)
    /\ comp' = [IdleComp EXCEPT !.pc = "dead"]
    /\ proc' = [w \in Writers |-> [IdleProc EXCEPT !.pc = "dead"]]
    /\ heap' = NoHeap
    /\ objs' = [h \in DOMAIN objs |-> NewCollection(objs[h].name)]
    /\ storage' = [storage EXCEPT !.open = FALSE]
    /\ last' = Called("Compact", "fatal", 0)
    /\ faults' = 0
    /\ UNCHANGED <<registry, replay, disk>>

\* db.storage.Compact(records) and the return of Database.Compact
CompactRewrite(step) ==
    /\ comp.pc = "range"
    /\ comp.left = {}
    /\ LET ret == StorageCompact(storage, Deref(heap, comp.snap), step)
       IN  /\ step # "ok" => storage.open
           /\ ~ret.ok => faults < MaxFaults
           /\ faults' = IF ret.ok THEN faults ELSE faults + 1
           /\ storage' = ret.s
           /\ last' = Called("Compact", IF ret.ok THEN "ok" ELSE "ioerr", 0)
    /\ Leaves(heap, objs, IdleComp)
    /\ UNCHANGED <<registry, replay, disk, proc>>

NextConc ==
    \/ \E w \in Writers, h \in Handles, doc \in ConcDocs, u \in Uuids : InsertLock(w, h, doc, u)
    \/ \E w \in Writers, io \in IOs : InsertAppend(w, io)
    \/ \E w \in Writers, h \in Handles, id \in DocIds, update \in Partials :
          UpdateLock(w, h, id, update)
    \/ \E w \in Writers, io \in IOs : UpdateAppend(w, io)
    \/ \E w \in Writers, h \in Handles, id \in DocIds : DeleteLock(w, h, id)
    \/ \E w \in Writers, io \in IOs : DeleteAppend(w, io)
    \/ CompactLock
    \/ \E n \in Names : \E ids \in Perms(IdsOf(registry[n])) : CompactRange(n, ids)
    \/ \E n \in Names : CompactRangeFatal(n)
    \/ \E step \in CompactSteps : CompactRewrite(step)

SpecConc == InitConc /\ [][NextConc]_vars


(***************************************************************************)
(* SpecOps: OpenDatabase on a log of up to MaxOpsLines lines, then one     *)
(* call of Update, Delete, UpdateMany, DeleteMany or DropCollection.  last *)
(* records the call with its arguments and the memory and file it found    *)
(* (last.pre), so that what the call returned and left can be compared     *)
(* with what it was given.                                                 *)
(***************************************************************************)
OpsDocs(id) ==
    {NilDoc, [id |-> Str(id), v |-> "n:1"], [id |-> Str(id), v |-> "n:2"]}
        \cup (IF id = "7" THEN {[id |-> "n:7", v |-> "n:1"]} ELSE {})

OpsLines ==
    {Marshal(StorageRecord(x[1], x[2], x[3])) :
        x \in {y \in Names \X DocIds \X (Docs \cup {NilDoc}) : y[3] \in OpsDocs(y[2])}}

OpsFiles == UNION {[1..n -> OpsLines] : n \in 0..MaxOpsLines}

NoArgs == [h |-> 0, id |-> "-", name |-> "-", filter |-> [id |-> Absent, v |-> Absent],
           update |-> [id |-> Absent, v |-> Absent], ids |-> << >>]

Pre == [heap |-> heap, objs |-> objs, registry |-> registry, file |-> storage.file]

InitOps ==
    /\ \E f \in OpsFiles :
          /\ storage = NewStorage(f)
          /\ LET db == loadFromDisk(f)
             IN  heap = db.heap /\ objs = db.objs /\ registry = db.registry
    /\ last = [op |-> "OpenDatabase", res |-> "ok", n |-> 0, args |-> NoArgs,
               pre |-> [heap |-> NoHeap, objs |-> << >>,
                        registry |-> [n \in Names |-> 0], file |-> << >>]]
    /\ faults = 0
    /\ replay = NoReplay
    /\ disk = NoDisk
    /\ proc = NoProc
    /\ comp = NoComp

\* the call op with arguments args returns ret
OpsReturns(ret, reg, op, args) ==
    /\ last.op = "OpenDatabase"
    /\ heap' = ret.heap
    /\ objs' = ret.objs
    /\ storage' = ret.storage
    /\ registry' = reg
    /\ last' = [op |-> op, res |-> ret.res, n |-> ret.n, args |-> args, pre |-> Pre]
    /\ faults' = IF ret.res = "ioerr" THEN 1 ELSE 0
    /\ UNCHANGED aux

OpsUpdate(h, id, update, io) ==
    OpsReturns(Update(M, h, id, update, io), registry, "Update",
               [NoArgs EXCEPT !.h = h, !.id = id, !.update = update])

OpsDelete(h, id, io) ==
    OpsReturns(Delete(M, h, id, io), registry, "Delete", [NoArgs EXCEPT !.h = h, !.id = id])

OpsUpdateMany(h, ids, filter, update, failAt, kind) ==
    OpsReturns(UpdateMany(M, h, ids, filter, update, failAt, kind), registry, "UpdateMany",
               [NoArgs EXCEPT !.h = h, !.filter = filter, !.update = update, !.ids = ids])

OpsDeleteMany(h, ids, filter, failAt, kind) ==
    OpsReturns(DeleteMany(M, h, ids, filter, failAt, kind), registry, "DeleteMany",
               [NoArgs EXCEPT !.h = h, !.filter = filter, !.ids = ids])

OpsDropCollection(name, ids, failAt, kind) ==
    LET ret == DropCollection(M, registry, name, ids, failAt, kind)
    IN  OpsReturns(ret, ret.registry, "DropCollection",
                   [NoArgs EXCEPT !.name = name, !.ids = ids])

NextOps ==
    \/ \E h \in Handles, id \in DocIds, update \in Partials, io \in IOs :
          OpsUpdate(h, id, update, io)
    \/ \E h \in Handles, id \in DocIds, io \in IOs : OpsDelete(h, id, io)
    \/ \E h \in Handles, filter \in Filters, update \in Partials :
          \E ids \in Perms(IdsOf(h)) : \E failAt \in 0..Len(ids) : \E kind \in KindsAt(failAt) :
             OpsUpdateMany(h, ids, filter, update, failAt, kind)
    \/ \E h \in Handles, filter \in Filters :
          \E ids \in Perms(IdsOf(h)) : \E failAt \in 0..Len(ids) : \E kind \in KindsAt(failAt) :
             OpsDeleteMany(h, ids, filter, failAt, kind)
    \/ \E name \in Names :
          \E ids \in Perms(IF registry[name] = 0 THEN {} ELSE IdsOf(registry[name])) :
             \E failAt \in 0..Len(ids) : \E kind \in KindsAt(failAt) :
                OpsDropCollection(name, ids, failAt, kind)

SpecOps == InitOps /\ [][NextOps]_vars


(***************************************************************************)
(* What a caller observes, and the calls a caller can make in a state.     *)
(***************************************************************************)
\* the per-collection documents that OpenDatabase builds from a file
ReopenedDocs(lines) ==
    LET db == loadFromDisk(lines)
    IN  [n \in Names |-> DocsOf(db.heap, db.objs, db.registry, n)]

\* the documents of every Collection object of a memory
AllDocs(hp, ob) == [h \in DOMAIN ob |-> HandleDocs(hp, ob, h)]

\* the Insert calls with a new document map, and what each leaves
InsertCalls ==
    {c \in [h : Handles, doc : InputDocs, u : Uuids, io : IOs] :
        FreeRef(heap) # 0 /\ (c.doc.id = Absent => c.u \notin UsedIds)}

InsertOf(c) ==
    Insert(Mem([heap EXCEPT ![FreeRef(heap)] = c.doc], objs, storage),
           c.h, FreeRef(heap), c.u, c.io)

InsertId(c) == IF c.doc.id = Absent THEN c.u ELSE Sprint(c.doc.id)

(***************************************************************************)
(* C1: after any sequence of calls in which no append fails, the documents *)
(* of every collection in memory are those that replaying the log gives,   *)
(* so that closing and reopening reproduces them.                          *)
(***************************************************************************)
C1_RoundTrip == faults = 0 => RegistryDocs = ReopenedDocs(storage.file)


(***************************************************************************)
(* C2: for every record sequence that LoadAll returns, replay gives each   *)
(* (collection, id) the document of the last record for that pair if that  *)
(* record is not a tombstone, and no document if the last record is a      *)
(* tombstone or the pair has no record.                                    *)
(***************************************************************************)
LastRecord(records, n, id) ==
    LET at == {i \in DOMAIN records : records[i].Collection = n /\ records[i].ID = id}
    IN  IF at = {} THEN NilDoc
        ELSE records[CHOOSE i \in at : \A j \in at : j <= i].Doc

C2_LastRecordWins ==
    replay.pc = "done" =>
        \A n \in Names, id \in DocIds :
            RegistryDocs[n][id] = LastRecord(replay.records, n, id)

\* a replay has finished in which a document was overwritten, a tombstone
\* named a pair with no earlier record, and the file had a line to skip
C2_Witness ==
    /\ replay.pc = "done"
    /\ Len(replay.records) < Len(storage.file)
    /\ \E i, j \in DOMAIN replay.records :
          /\ i < j
          /\ replay.records[i].Collection = replay.records[j].Collection
          /\ replay.records[i].ID = replay.records[j].ID
          /\ replay.records[i].Doc # NilDoc
          /\ replay.records[j].Doc # NilDoc
          /\ replay.records[i].Doc # replay.records[j].Doc
    /\ \E k \in DOMAIN replay.records :
          /\ replay.records[k].Doc = NilDoc
          /\ \A i \in 1..(k - 1) :
                replay.records[i].Collection # replay.records[k].Collection
                \/ replay.records[i].ID # replay.records[k].ID

(***************************************************************************)
(* C3: after a successful Database.Compact the log holds exactly one       *)
(* record, not a tombstone, for every document reachable through the       *)
(* registry and nothing else, and replaying it gives the documents that    *)
(* memory holds (Compact leaves memory as it was when it began).           *)
(***************************************************************************)
C3_CompactReplay ==
    (last.op = "Compact" /\ last.res = "ok") =>
        /\ Len(storage.file) = Cardinality(LivePairs(objs, registry))
        /\ \A p \in LivePairs(objs, registry) :
              \E i \in DOMAIN storage.file :
                 /\ Parseable(storage.file[i])
                 /\ Unmarshal(storage.file[i]) =
                       StorageRecord(p[1], p[2], RegistryDocs[p[1]][p[2]])
        /\ ReopenedDocs(storage.file) = RegistryDocs

\* a compaction has succeeded with documents in two collections
C3_Witness ==
    /\ last.op = "Compact" /\ last.res = "ok"
    /\ \A n \in Names : \E id \in DocIds : RegistryDocs[n][id] # NilDoc

(***************************************************************************)
(* C4: under any interleaving of Insert, Update and Delete with            *)
(* Database.Compact, once every call has returned and none of them has     *)
(* failed, replaying the file gives the documents in memory: no write that *)
(* returned success is missing from the log.                               *)
(***************************************************************************)
C4_AckedSurvivesCompact ==
    (comp.pc = "idle" /\ faults = 0 /\ \A w \in Writers : proc[w].pc = "idle") =>
        ReopenedDocs(storage.file) = RegistryDocs

(***************************************************************************)
(* C5: when the machine stops during Storage.Compact, the file at the      *)
(* database path holds exactly the record sequence it held when Compact    *)
(* was called if the rename has not happened, and exactly the given        *)
(* snapshot if it has (taken for a file that was wholly on stable storage  *)
(* when Compact was called).                                               *)
(***************************************************************************)
C5_CompactCrashAtomic ==
    (disk.pc = "crashed" /\ disk.phase # "none" /\ disk.preStable = Len(disk.pre)) =>
        storage.file = IF disk.phase = "before" THEN disk.pre ELSE disk.snap

(***************************************************************************)
(* C6: whenever Compact returns an error, whichever step failed, the file  *)
(* at the database path holds the record sequence it held before the call. *)
(***************************************************************************)
C6_CompactErrorKeepsFile ==
    [][(last'.op = "Compact" /\ last'.res = "ioerr") =>
          storage'.file = storage.file]_vars

(***************************************************************************)
(* C7: Storage.Append returns nil only when its Write and then its Sync    *)
(* succeeded, and an error when either failed; every record whose Append   *)
(* returned nil is on stable storage from then on, so it is in the file    *)
(* after a crash at any later point (until a Compact replaces the file).   *)
(***************************************************************************)
C7_AppendDurable ==
    /\ \A a \in disk.acked :
          /\ a[1] <= Len(storage.file)
          /\ storage.file[a[1]] = a[2]
          /\ disk.pc # "crashed" => a[1] <= disk.stable
    /\ (disk.pc = "idle" /\ disk.op = "Append") =>
          ((disk.res = "ok") <=> (disk.wrote /\ disk.synced))
    /\ disk.pc = "Sync" => disk.wrote
    /\ disk.synced => disk.wrote

\* the machine has stopped after an Append returned nil and a later Append
\* had written its line without syncing it, and the later line is lost
C7_Witness ==
    /\ disk.pc = "crashed"
    /\ disk.acked # {}
    /\ disk.wrote /\ ~disk.synced
    /\ Len(storage.file) = Cardinality(disk.acked)

(***************************************************************************)
(* C8: if the append fails during Insert, Insert returns the error, every  *)
(* collection holds the documents it held before the call, and the log     *)
(* replays to what it replayed to before the call (the map and the log do  *)
(* not diverge by the call).                                               *)
(***************************************************************************)
C8_InsertAllOrNothing ==
    [][(last'.op = "Insert" /\ last'.res = "ioerr") =>
          /\ AllDocs(heap', objs') = AllDocs(heap, objs)
          /\ tempDataOf(storage'.file) = tempDataOf(storage.file)]_vars

(***************************************************************************)
(* C9: if the append fails during Update or Delete, the call returns an    *)
(* error and every collection holds the documents it held before the call. *)
(***************************************************************************)
C9_ChangeAfterAppend ==
    [][(last'.op \in {"Update", "Delete"} /\ last'.res = "ioerr") =>
          AllDocs(heap', objs') = AllDocs(heap, objs)]_vars

(***************************************************************************)
(* C10: Insert returns the duplicate-key error exactly when the            *)
(* collection it is called on already holds the document's id, whatever    *)
(* the other collections hold; it then appends nothing and leaves every    *)
(* document, and so every Count, unchanged.                                *)
(***************************************************************************)
C10_DuplicateRejected ==
    \A c \in InsertCalls :
        LET ret == InsertOf(c)
        IN  /\ (ret.res = "duplicate") <=> (objs[c.h].documents[InsertId(c)] # 0)
            /\ ret.res = "duplicate" =>
                  /\ ret.storage = storage
                  /\ AllDocs(ret.heap, ret.objs) = AllDocs(heap, objs)
                  /\ \A h \in Handles : CountOf(ret.objs, h) = CountOf(objs, h)

\* an Insert has been refused as a duplicate while another collection holds
\* the same id
C10_Witness ==
    /\ last.op = "Insert" /\ last.res = "duplicate"
    /\ \E h1, h2 \in Handles, id \in DocIds :
          /\ objs[h1].name # objs[h2].name
          /\ objs[h1].documents[id] # 0
          /\ objs[h2].documents[id] # 0

(***************************************************************************)
(* C11: in every reachable state every document stored in a collection has *)
(* an identifier field equal to the map key it is stored under, whatever   *)
(* the JSON type of the identifier the caller supplied.                    *)
(***************************************************************************)
C11_IdEqualsKey ==
    \A h \in Handles, id \in DocIds :
        objs[h].documents[id] # 0 => heap[objs[h].documents[id]].id = Str(id)

(***************************************************************************)
(* C19: immediately after Open the registry holds exactly the names that   *)
(* have at least one surviving document in the replayed log; a name whose  *)
(* documents were all tombstoned is not registered.                        *)
(***************************************************************************)
C19_RegistryAfterOpen ==
    replay.pc = "done" =>
        ListCollections(registry) =
            {n \in Names : \E id \in DocIds : LastRecord(replay.records, n, id) # NilDoc}

\* an Open has finished on a log in which one name has a surviving document
\* and another has a document and then its tombstone
C19_Witness ==
    /\ replay.pc = "done"
    /\ ListCollections(registry) # {}
    /\ \E n \in Names \ ListCollections(registry) :
          \E i, j \in DOMAIN replay.records :
             /\ i < j
             /\ replay.records[i].Collection = n /\ replay.records[j].Collection = n
             /\ replay.records[i].ID = replay.records[j].ID
             /\ replay.records[i].Doc # NilDoc
             /\ replay.records[j].Doc = NilDoc

(***************************************************************************)
(* C20: a Close that follows a successful Close returns success and        *)
(* changes nothing.                                                        *)
(***************************************************************************)
C20_CloseIdempotent ==
    [][(last.op = "Close" /\ last.res = "ok" /\ last'.op = "Close") =>
          (last'.res = "ok" /\ storage' = storage)]_vars


(***************************************************************************)
(* SpecLoad: OpenDatabase on a file of up to MaxLoadLines lines, among     *)
(* them lines that do not parse, empty lines and lines longer than the     *)
(* scanner's buffer.  replay.records and replay.ok are what LoadAll        *)
(* returned.                                                               *)
(***************************************************************************)
LoadLines == OpsLines \cup {GarbageLine, EmptyLine, LongLine}

LoadFiles == UNION {[1..n -> LoadLines] : n \in 0..MaxLoadLines}

InitLoad ==
    /\ heap = NoHeap
    /\ objs = << >>
    /\ registry = [n \in Names |-> 0]
    /\ storage \in {NewStorage(f) : f \in LoadFiles}
    /\ last = Called("NewStorage", "ok", 0)
    /\ faults = 0
    /\ replay = [pc |-> "LoadAll", records |-> << >>, ok |-> TRUE]
    /\ disk = NoDisk
    /\ proc = NoProc
    /\ comp = NoComp

\* db.storage.LoadAll() in loadFromDisk
LoadCall ==
    /\ replay.pc = "LoadAll"
    /\ LET ret == StorageLoadAll(storage.file)
       IN  replay' = [pc |-> "loaded", records |-> ret.records, ok |-> ret.ok]
    /\ UNCHANGED <<dbVars, storage, disk, proc, comp>>

\* loadFromDisk returns the error of LoadAll and OpenDatabase closes the storage
LoadFails ==
    /\ replay.pc = "loaded" /\ ~replay.ok
    /\ replay' = [replay EXCEPT !.pc = "failed"]
    /\ storage' = Close(storage).s
    /\ last' = Called("OpenDatabase", "ioerr", 0)
    /\ UNCHANGED <<heap, objs, registry, faults, disk, proc, comp>>

\* the rest of loadFromDisk, and OpenDatabase returns the Database
LoadOpens ==
    /\ replay.pc = "loaded" /\ replay.ok
    /\ LET db == CollectionsOf(ReplayFrom(EmptyTemp, replay.records))
       IN  heap' = db.heap /\ objs' = db.objs /\ registry' = db.registry
    /\ replay' = [replay EXCEPT !.pc = "done"]
    /\ last' = Called("OpenDatabase", "ok", 0)
    /\ UNCHANGED <<storage, faults, disk, proc, comp>>

NextLoad == LoadCall \/ LoadFails \/ LoadOpens

SpecLoad == InitLoad /\ [][NextLoad]_vars


(***************************************************************************)
(* SpecAppend: the goroutines of Writers each make up to MaxWrites writes  *)
(* (Insert, Update or Delete) on Collections, every lock and every write   *)
(* to the file a step of its own.  file.Write may hand the bytes of a line *)
(* to the file in two parts, "head" and "tail".                            *)
(*   disk.cmu[n]   the goroutine that holds the lock of Collection n       *)
(*   disk.smu      the goroutine that holds the lock of the Storage        *)
(*   disk.seq[n]   the number of writes Collection n has begun             *)
(*   disk.bytes    the parts written to the file, in file order            *)
(*   proc[w]       where w stands, the Collection it writes, the number of *)
(*                 that write in the Collection, the writes w has finished *)
(***************************************************************************)
Unheld == "none"

InitAppend ==
    /\ heap = NoHeap
    /\ objs = << >>
    /\ registry = [n \in Names |-> 0]
    /\ storage = NewStorage(<< >>)
    /\ last = Called("NewStorage", "ok", 0)
    /\ faults = 0
    /\ replay = NoReplay
    /\ disk = [cmu |-> [n \in Names |-> Unheld], smu |-> Unheld,
               seq |-> [n \in Names |-> 0], bytes |-> << >>]
    /\ proc = [w \in Writers |-> [pc |-> "idle", c |-> "-", k |-> 0, done |-> 0]]
    /\ comp = NoComp

AppendSteps(w, proc1, disk1) ==
    /\ proc' = [proc EXCEPT ![w] = proc1]
    /\ disk' = disk1
    /\ UNCHANGED <<dbVars, storage, replay, comp>>

\* c.mu.Lock() of a write on Collection n, and its work in memory
WriteLock(w, n) ==
    /\ proc[w].pc = "idle" /\ proc[w].done < MaxWrites
    /\ disk.cmu[n] = Unheld
    /\ AppendSteps(w, [proc[w] EXCEPT !.pc = "Append", !.c = n, !.k = disk.seq[n] + 1],
                   [disk EXCEPT !.cmu[n] = w, !.seq[n] = @ + 1])

\* a Storage lock taken whoever holds it
M_AppendLockUnguarded(w) ==
    /\ proc[w].pc = "Append"
    /\ AppendSteps(w, [proc[w] EXCEPT !.pc = "Write"], [disk EXCEPT !.smu = w])

\* Storage.Append: s.mu.Lock()
AppendLock(w) ==
    /\ proc[w].pc = "Append"
    /\ disk.smu = Unheld
    /\ AppendSteps(w, [proc[w] EXCEPT !.pc = "Write"], [disk EXCEPT !.smu = w])

\* Storage.Append: s.file.Write(data), the first bytes of the line
AppendWriteHead(w) ==
    /\ proc[w].pc = "Write"
    /\ AppendSteps(w, [proc[w] EXCEPT !.pc = "WriteTail"],
                   [disk EXCEPT !.bytes = Append(@, [c |-> proc[w].c, k |-> proc[w].k,
                                                     part |-> "head"])])

\* Storage.Append: s.file.Write(data), the rest of the line
AppendWriteTail(w) ==
    /\ proc[w].pc = "WriteTail"
    /\ AppendSteps(w, [proc[w] EXCEPT !.pc = "Sync"],
                   [disk EXCEPT !.bytes = Append(@, [c |-> proc[w].c, k |-> proc[w].k,
                                                     part |-> "tail"])])

\* Storage.Append: s.file.Sync(), return, the deferred s.mu.Unlock()
AppendUnlock(w) ==
    /\ proc[w].pc = "Sync"
    /\ AppendSteps(w, [proc[w] EXCEPT !.pc = "return"], [disk EXCEPT !.smu = Unheld])

\* the write returns: the deferred c.mu.Unlock()
WriteUnlock(w) ==
    /\ proc[w].pc = "return"
    /\ AppendSteps(w, [proc[w] EXCEPT !.pc = "idle", !.c = "-", !.k = 0, !.done = @ + 1],
                   [disk EXCEPT !.cmu[proc[w].c] = Unheld])

NextAppend ==
    \/ \E w \in Writers, n \in Names : WriteLock(w, n)
    \/ \E w \in Writers : AppendLock(w)
    \/ \E w \in Writers : AppendWriteHead(w)
    \/ \E w \in Writers : AppendWriteTail(w)
    \/ \E w \in Writers : AppendUnlock(w)
    \/ \E w \in Writers : WriteUnlock(w)

SpecAppend == InitAppend /\ [][NextAppend]_vars


(***************************************************************************)
(* SpecFind: readers that call Find and a writer that calls Update on one  *)
(* Collection, every lock operation a step of its own.  c.mu is a          *)
(* sync.RWMutex: a writer that has called Lock waits for the read locks    *)
(* held to be released, and from its call on RLock blocks.                 *)
(*   comp.readerCount   the read locks held                                *)
(*   comp.writer        the goroutine that has called Lock and not yet     *)
(*                      Unlock                                             *)
(*   proc[p]            where p stands; for a reader its filter and the    *)
(*                      slice Find returned, whose elements are the maps   *)
(*                      themselves; for the writer the id and the update   *)
(***************************************************************************)
Readers == {"r1", "r2"}
FindWriters == {"w1"}

EmptyFilter == [key \in Keys |-> Absent]
IdleFind == [pc |-> "idle", filter |-> EmptyFilter, result |-> << >>,
             id |-> "-", update |-> EmptyFilter]

FindFiles ==
    {<<Marshal(StorageRecord("a", "7", [id |-> "s:7", v |-> x])),
       Marshal(StorageRecord("a", "u1", [id |-> "s:u1", v |-> y]))>> : x, y \in VToks}

InitFind ==
    /\ \E f \in FindFiles :
          /\ storage = NewStorage(f)
          /\ LET db == loadFromDisk(f)
             IN  heap = db.heap /\ objs = db.objs /\ registry = db.registry
    /\ last = Called("OpenDatabase", "ok", 0)
    /\ faults = 0
    /\ replay = NoReplay
    /\ disk = NoDisk
    /\ proc = [p \in Readers \cup FindWriters |-> IdleFind]
    /\ comp = [readerCount |-> 0, writer |-> Unheld]

\* the slice FindAll builds, the range visiting the keys in the order ids
FindAll(m, h, ids) == [i \in DOMAIN ids |-> m.objs[h].documents[ids[i]]]

\* a Find that does not look at the filter
M_FindIgnoresFilter(m, h, ids, filter) == FindAll(m, h, ids)

\* the slice Find returns
Find(m, h, ids, filter) ==
    IF filter = EmptyFilter THEN FindAll(m, h, ids)
    ELSE SelectSeq(FindAll(m, h, ids), LAMBDA r : MatchesFilter(m.heap[r], filter))

\* Find: c.mu.RLock()
FindRLock(p, filter) ==
    /\ proc[p].pc = "idle"
    /\ comp.writer = Unheld
    /\ comp' = [comp EXCEPT !.readerCount = @ + 1]
    /\ proc' = [proc EXCEPT ![p] = [@ EXCEPT !.pc = IF filter = EmptyFilter THEN "FindAll"
                                                     ELSE "range",
                                             !.filter = filter]]
    /\ UNCHANGED <<dbVars, storage, replay, disk>>

\* FindAll called by Find: c.mu.RLock() once more
FindAllRLock(p) ==
    /\ proc[p].pc = "FindAll"
    /\ comp.writer = Unheld
    /\ comp' = [comp EXCEPT !.readerCount = @ + 1]
    /\ proc' = [proc EXCEPT ![p].pc = "collect"]
    /\ UNCHANGED <<dbVars, storage, replay, disk>>

\* FindAll: the range, return and the deferred c.mu.RUnlock()
FindAllReturns(p, ids) ==
    /\ proc[p].pc = "collect"
    /\ comp' = [comp EXCEPT !.readerCount = @ - 1]
    /\ proc' = [proc EXCEPT ![p] = [@ EXCEPT !.pc = "RUnlock",
                                             !.result = FindAll(M, 1, ids)]]
    /\ UNCHANGED <<dbVars, storage, replay, disk>>

\* Find with a filter: the range over c.documents
FindRange(p, ids) ==
    /\ proc[p].pc = "range"
    /\ proc' = [proc EXCEPT ![p] = [@ EXCEPT !.pc = "RUnlock",
                                             !.result = Find(M, 1, ids, proc[p].filter)]]
    /\ UNCHANGED <<dbVars, storage, replay, disk, comp>>

\* Find returns: the deferred c.mu.RUnlock()
FindReturns(p) ==
    /\ proc[p].pc = "RUnlock"
    /\ comp' = [comp EXCEPT !.readerCount = @ - 1]
    /\ proc' = [proc EXCEPT ![p].pc = "returned"]
    /\ UNCHANGED <<dbVars, storage, replay, disk>>

\* the caller writes a field of the first document of the slice it got
CallerWrites(p) ==
    /\ proc[p].pc = "returned"
    /\ proc[p].result # << >>
    /\ heap' = [heap EXCEPT ![proc[p].result[1]].v = IF @ = "n:1" THEN "n:2" ELSE "n:1"]
    /\ proc' = [proc EXCEPT ![p].pc = "done"]
    /\ UNCHANGED <<objs, registry, last, faults, storage, replay, disk, comp>>

\* Update: c.mu.Lock() is called; read locks are refused from now on
UpdateCallsLock(p, id, update) ==
    /\ proc[p].pc = "idle"
    /\ comp.writer = Unheld
    /\ comp' = [comp EXCEPT !.writer = p]
    /\ proc' = [proc EXCEPT ![p] = [@ EXCEPT !.pc = "Lock", !.id = id, !.update = update]]
    /\ UNCHANGED <<dbVars, storage, replay, disk>>

\* Update: c.mu.Lock() returns when no read lock is held; the merge, the
\* Append, the deferred c.mu.Unlock()
UpdateRuns(p) ==
    /\ proc[p].pc = "Lock"
    /\ comp.readerCount = 0
    /\ LET ret == Update(M, 1, proc[p].id, proc[p].update, "ok")
       IN  /\ heap' = ret.heap
           /\ objs' = ret.objs
           /\ storage' = ret.storage
           /\ last' = Called("Update", ret.res, 0)
    /\ comp' = [comp EXCEPT !.writer = Unheld]
    /\ proc' = [proc EXCEPT ![p].pc = "done"]
    /\ UNCHANGED <<registry, faults, replay, disk>>

NextFind ==
    \/ \E p \in Readers, filter \in Filters : FindRLock(p, filter)
    \/ \E p \in Readers : FindAllRLock(p)
    \/ \E p \in Readers : \E ids \in Perms(IdsOf(1)) : FindAllReturns(p, ids)
    \/ \E p \in Readers : \E ids \in Perms(IdsOf(1)) : FindRange(p, ids)
    \/ \E p \in Readers : FindReturns(p)
    \/ \E p \in Readers : CallerWrites(p)
    \/ \E p \in FindWriters, id \in DocIds, update \in Partials : UpdateCallsLock(p, id, update)
    \/ \E p \in FindWriters : UpdateRuns(p)

SpecFind == InitFind /\ [][NextFind]_vars

\* every goroutine that can take a step takes one in the end
SpecFindLive == SpecFind /\ WF_vars(NextFind)


(***************************************************************************)
(* SpecQuery: one call of MatchesFilter or of valuesMatch on drawn         *)
(* arguments.  comp holds the call and its arguments, last what it         *)
(* returned.  "f:7" is the float 7.0, "n:7" the integer 7, "s:7" the       *)
(* string "7".                                                             *)
(***************************************************************************)
QueryVals == {"n:7", "f:7", "s:7", "n:1", "s:u1"}
QueryDocs == [Keys -> QueryVals \cup {Absent}]

QueryCalls ==
    UNION {{[call |-> "MatchesFilter", doc |-> d[1], filter |-> d[2], keys |-> ks] :
               ks \in Perms(FilterKeys(d[2]))} : d \in QueryDocs \X QueryDocs}
    \cup {[call |-> "valuesMatch", docValue |-> a[1], filterValue |-> a[2]] :
               a \in QueryVals \X QueryVals}

InitQuery ==
    /\ heap = NoHeap
    /\ objs = << >>
    /\ registry = [n \in Names |-> 0]
    /\ storage = NewStorage(<< >>)
    /\ last = [op |-> "none", res |-> FALSE]
    /\ faults = 0
    /\ replay = NoReplay
    /\ disk = NoDisk
    /\ proc = NoProc
    /\ comp \in QueryCalls

QueryReturns(call, res) ==
    /\ last.op = "none"
    /\ last' = [op |-> call, res |-> res]
    /\ UNCHANGED <<heap, objs, registry, faults, storage, aux>>

CallMatchesFilter ==
    /\ comp.call = "MatchesFilter"
    /\ QueryReturns("MatchesFilter",
                    IF FilterKeys(comp.filter) = {} THEN TRUE
                    ELSE MatchesFilterLoop(comp.doc, comp.filter, comp.keys))

CallValuesMatch ==
    /\ comp.call = "valuesMatch"
    /\ QueryReturns("valuesMatch", valuesMatch(comp.docValue, comp.filterValue))

NextQuery == CallMatchesFilter \/ CallValuesMatch

SpecQuery == InitQuery /\ [][NextQuery]_vars


(***************************************************************************)
(* SortDocuments, compareValues and toFloat64 (engine/query.go), and       *)
(* SpecSort: one call of SortDocuments on a drawn slice.  A value of the   *)
(* sort field is [t, x]: the number x (t = "num"), or the string whose     *)
(* text is the decimal numeral of x (t = "str"); NoField says that the     *)
(* document lacks the field.  A document is [n, f]: n tells the documents  *)
(* of a slice apart (its index in the slice given), f is its sort field.   *)
(***************************************************************************)
NoField == [t |-> "-", x |-> 0]
SortVals == {[t |-> "num", x |-> 9], [t |-> "num", x |-> 10],
             [t |-> "str", x |-> 5], [t |-> "str", x |-> 9]}

\* fmt.Sprintf("%v", value): the decimal digits of x
RECURSIVE Digits(_)
Digits(x) == IF x < 10 THEN <<x>> ELSE Digits(x \div 10) \o <<x % 10>>

\* the comparison of two strings by aStr < bStr, aStr > bStr
RECURSIVE CompareStrings(_, _)
CompareStrings(a, b) ==
    IF a = << >> /\ b = << >> THEN 0
    ELSE IF a = << >> THEN -1
    ELSE IF b = << >> THEN 1
    ELSE IF Head(a) < Head(b) THEN -1
    ELSE IF Head(a) > Head(b) THEN 1
    ELSE CompareStrings(Tail(a), Tail(b))

toFloat64(val) == [v |-> val.x, ok |-> val.t = "num"]

\* a comparison that is by text whatever the values are
M_compareValuesText(a, b) == CompareStrings(Digits(a.x), Digits(b.x))

compareValues(a, b) ==
    IF toFloat64(a).ok /\ toFloat64(b).ok
    THEN IF toFloat64(a).v < toFloat64(b).v THEN -1
         ELSE IF toFloat64(a).v > toFloat64(b).v THEN 1
         ELSE 0
    ELSE CompareStrings(Digits(a.x), Digits(b.x))

\* an inner loop that swaps a document lacking the field behind its neighbour
RECURSIVE M_SortInnerSwapsMissing(_, _, _, _)
M_SortInnerSwapsMissing(docs, i, j, direction) ==
    IF j >= Len(docs) - i - 1 THEN docs
    ELSE LET val1 == docs[j + 1].f
             val2 == docs[j + 2].f
             shouldSwap == IF val1 = NoField \/ val2 = NoField THEN val1 = NoField
                           ELSE IF direction = "desc" THEN compareValues(val1, val2) < 0
                           ELSE compareValues(val1, val2) > 0
         IN  IF shouldSwap
             THEN M_SortInnerSwapsMissing(
                      [docs EXCEPT ![j + 1] = docs[j + 2], ![j + 2] = docs[j + 1]],
                      i, j + 1, direction)
             ELSE M_SortInnerSwapsMissing(docs, i, j + 1, direction)

\* the inner loop of SortDocuments from j on, in pass i
RECURSIVE SortInner(_, _, _, _)
SortInner(docs, i, j, direction) ==
    IF j >= Len(docs) - i - 1 THEN docs
    ELSE LET val1 == docs[j + 1].f
             val2 == docs[j + 2].f
             shouldSwap == IF direction = "desc" THEN compareValues(val1, val2) < 0
                           ELSE compareValues(val1, val2) > 0
         IN  IF val1 = NoField \/ val2 = NoField THEN SortInner(docs, i, j + 1, direction)
             ELSE IF shouldSwap
             THEN SortInner([docs EXCEPT ![j + 1] = docs[j + 2], ![j + 2] = docs[j + 1]],
                            i, j + 1, direction)
             ELSE SortInner(docs, i, j + 1, direction)

\* the outer loop of SortDocuments from pass i on
RECURSIVE SortOuter(_, _, _)
SortOuter(docs, i, direction) ==
    IF i >= Len(docs) - 1 THEN docs
    ELSE SortOuter(SortInner(docs, i, 0, direction), i + 1, direction)

SortDocuments(docs, direction) == SortOuter(docs, 0, direction)

SortSlices ==
    UNION {{[i \in 1..n |-> [n |-> i, f |-> fs[i]]] : fs \in [1..n -> SortVals \cup {NoField}]} :
              n \in 0..MaxSortLen}

InitSort ==
    /\ heap = NoHeap
    /\ objs = << >>
    /\ registry = [n \in Names |-> 0]
    /\ storage = NewStorage(<< >>)
    /\ last = [op |-> "none", docs |-> << >>]
    /\ faults = 0
    /\ replay = NoReplay
    /\ disk = NoDisk
    /\ proc = NoProc
    /\ comp \in [docs : SortSlices, direction : {"asc", "desc"}]

CallSortDocuments ==
    /\ last.op = "none"
    /\ last' = [op |-> "SortDocuments", docs |-> SortDocuments(comp.docs, comp.direction)]
    /\ UNCHANGED <<heap, objs, registry, faults, storage, aux>>

NextSort == CallSortDocuments

SpecSort == InitSort /\ [][NextSort]_vars


(***************************************************************************)
(* SpecNode: the Storage of the Node.js bridge build                       *)
(* (engine/storage_memory.go), where every file operation is one call into *)
(* the host: Append appends a line to the file at filePath, Compact writes *)
(* the temporary file, unlinks the file at filePath and renames the        *)
(* temporary file to it.                                                   *)
(*   disk.path, disk.exists   the lines of the file at filePath, and       *)
(*                whether there is a file at that path                     *)
(*   disk.tmp, disk.tmpExists the same for the temporary file              *)
(*   disk.snap, disk.pre      the content Compact built, and the lines of  *)
(*                the file when Compact was called                         *)
(***************************************************************************)
InitNode ==
    /\ heap = NoHeap
    /\ objs = << >>
    /\ registry = [n \in Names |-> 0]
    /\ storage = NewStorage(<< >>)
    /\ last = Called("NewStorage", "ok", 0)
    /\ faults = 0
    /\ replay = NoReplay
    /\ disk = [pc |-> "idle", path |-> << >>, exists |-> TRUE, tmp |-> << >>,
               tmpExists |-> FALSE, snap |-> << >>, pre |-> << >>]
    /\ proc = NoProc
    /\ comp = NoComp

NodeUntouched == UNCHANGED <<dbVars, storage, replay, proc, comp>>

\* Storage.Append(record): nodeFileAppendSync(s.filePath, line)
NodeAppend(record) ==
    /\ disk.pc = "idle"
    /\ Len(disk.path) < MaxLog
    /\ disk' = [disk EXCEPT !.path = Append(@, Marshal(record)), !.exists = TRUE]
    /\ NodeUntouched

\* Storage.Compact(records): s.mu.Lock, the content is built
NodeCompactCall(records) ==
    /\ disk.pc = "idle"
    /\ disk' = [disk EXCEPT !.pc = "Write", !.snap = MarshalAll(records), !.pre = disk.path]
    /\ NodeUntouched

\* nodeFileWrite.Invoke(tempPath, content.String())
NodeWrite ==
    /\ disk.pc = "Write"
    /\ disk' = [disk EXCEPT !.pc = "Unlink", !.tmp = disk.snap, !.tmpExists = TRUE]
    /\ NodeUntouched

\* nodeFileUnlink.Invoke(s.filePath)
NodeUnlink ==
    /\ disk.pc = "Unlink"
    /\ disk' = [disk EXCEPT !.pc = "Rename", !.path = << >>, !.exists = FALSE]
    /\ NodeUntouched

\* nodeFileRename.Invoke(tempPath, s.filePath), then return nil
NodeRename ==
    /\ disk.pc = "Rename"
    /\ disk' = [disk EXCEPT !.pc = "idle", !.path = disk.tmp, !.exists = TRUE,
                            !.tmp = << >>, !.tmpExists = FALSE, !.snap = << >>,
                            !.pre = << >>]
    /\ NodeUntouched

\* the process stops inside Compact: the files stay as they are
NodeCrash ==
    /\ disk.pc \in {"Write", "Unlink", "Rename"}
    /\ disk' = [disk EXCEPT !.pc = "crashed"]
    /\ NodeUntouched

\* NewStorage(path) in a new process: the file is read, and created when
\* there is none
NodeRestart ==
    /\ disk.pc = "crashed"
    /\ disk' = [disk EXCEPT !.pc = "idle", !.exists = TRUE, !.snap = << >>, !.pre = << >>]
    /\ NodeUntouched

NextNode ==
    \/ \E record \in StorageRecords : NodeAppend(record)
    \/ \E records \in Snapshots : NodeCompactCall(records)
    \/ NodeWrite
    \/ NodeUnlink
    \/ NodeRename
    \/ NodeCrash
    \/ NodeRestart

SpecNode == InitNode /\ [][NextNode]_vars


(***************************************************************************)
(* SpecLocks: goroutines that call the operations of the Database and of   *)
(* the Collections "a" and "b" again and again, each call taken one lock   *)
(* operation at a time.  The mutexes are db.mu ("db"), the c.mu of each    *)
(* Collection ("a", "b") and s.mu ("s").                                   *)
(*   proc[g]    the call goroutine g is in (op, c) and the index i of the  *)
(*              lock operation it makes next                               *)
(*   comp[m]    the mutex m: the number of read locks held, the goroutine  *)
(*              that holds the write lock, and the goroutine that has      *)
(*              called Lock and waits for the readers to leave             *)
(* sync.RWMutex: once a goroutine has called Lock, RLock blocks until that *)
(* goroutine has had the lock.                                             *)
(***************************************************************************)
Goroutines == {"g1", "g2", "g3"}
Mutexes == {"db", "a", "b", "s"}

CollectionOps == {"Insert", "Update", "Delete", "UpdateMany", "DeleteMany",
                  "FindByID", "Count", "CountWhere", "DropCollection"}
DatabaseOps == {"GetCollection", "Compact", "Stats", "Close"}

Op(act, mu) == [act |-> act, mu |-> mu]

\* CountWhere that calls c.Count() while it holds the read lock
M_LockPlanNestedRLock(op, c) ==
    IF op \in {"Insert", "Update", "Delete"}
    THEN <<Op("Lock", c), Op("Lock", "s"), Op("Unlock", "s"), Op("Unlock", c)>>
    ELSE IF op \in {"UpdateMany", "DeleteMany"}
    THEN <<Op("Lock", c), Op("Lock", "s"), Op("Unlock", "s"),
           Op("Lock", "s"), Op("Unlock", "s"), Op("Unlock", c)>>
    ELSE IF op \in {"FindByID", "Count"}
    THEN <<Op("RLock", c), Op("RUnlock", c)>>
    ELSE IF op = "CountWhere"
    THEN <<Op("RLock", c), Op("RLock", c), Op("RUnlock", c), Op("RUnlock", c)>>
    ELSE IF op = "DropCollection"
    THEN <<Op("Lock", "db"), Op("Lock", c), Op("Lock", "s"), Op("Unlock", "s"),
           Op("Unlock", c), Op("Unlock", "db")>>
    ELSE IF op = "Compact"
    THEN <<Op("RLock", "db"), Op("Lock", "s"), Op("Unlock", "s"), Op("RUnlock", "db")>>
    ELSE IF op = "Stats"
    THEN <<Op("RLock", "db"), Op("RUnlock", "db")>>
    ELSE IF op = "Close"
    THEN <<Op("Lock", "db"), Op("Lock", "s"), Op("Unlock", "s"), Op("Unlock", "db")>>
    ELSE <<Op("Lock", "db"), Op("Unlock", "db")>>

\* the lock operations a call makes, in order: Insert, Update and Delete
\* append once under c.mu, UpdateMany and DeleteMany once per matching
\* document (two here), DropCollection calls Delete under db.mu, Compact
\* and Close call the Storage under db.mu
LockPlan(op, c) ==
    IF op \in {"Insert", "Update", "Delete"}
    THEN <<Op("Lock", c), Op("Lock", "s"), Op("Unlock", "s"), Op("Unlock", c)>>
    ELSE IF op \in {"UpdateMany", "DeleteMany"}
    THEN <<Op("Lock", c), Op("Lock", "s"), Op("Unlock", "s"),
           Op("Lock", "s"), Op("Unlock", "s"), Op("Unlock", c)>>
    ELSE IF op \in {"FindByID", "Count", "CountWhere"}
    THEN <<Op("RLock", c), Op("RUnlock", c)>>
    ELSE IF op = "DropCollection"
    THEN <<Op("Lock", "db"), Op("Lock", c), Op("Lock", "s"), Op("Unlock", "s"),
           Op("Unlock", c), Op("Unlock", "db")>>
    ELSE IF op = "Compact"
    THEN <<Op("RLock", "db"), Op("Lock", "s"), Op("Unlock", "s"), Op("RUnlock", "db")>>
    ELSE IF op = "Stats"
    THEN <<Op("RLock", "db"), Op("RUnlock", "db")>>
    ELSE IF op = "Close"
    THEN <<Op("Lock", "db"), Op("Lock", "s"), Op("Unlock", "s"), Op("Unlock", "db")>>
    ELSE <<Op("Lock", "db"), Op("Unlock", "db")>>

IdleGoroutine == [op |-> "-", c |-> "-", i |-> 0]
FreeMutex == [readers |-> 0, writer |-> "none", pending |-> "none"]

InitLocks ==
    /\ heap = NoHeap
    /\ objs = << >>
    /\ registry = [n \in Names |-> 0]
    /\ storage = NewStorage(<< >>)
    /\ last = Called("OpenDatabase", "ok", 0)
    /\ faults = 0
    /\ replay = NoReplay
    /\ disk = NoDisk
    /\ proc = [g \in Goroutines |-> IdleGoroutine]
    /\ comp = [m \in Mutexes |-> FreeMutex]

LocksUntouched == UNCHANGED <<dbVars, storage, replay, disk>>

\* the lock operation goroutine g makes next
NextOp(g) == LockPlan(proc[g].op, proc[g].c)[proc[g].i]

\* goroutine g has made its lock operation: the call goes on, or returns
\* after its last one
Advance(pr, g) ==
    IF pr[g].i = Len(LockPlan(pr[g].op, pr[g].c))
    THEN [pr EXCEPT ![g] = IdleGoroutine]
    ELSE [pr EXCEPT ![g].i = @ + 1]

\* goroutine g calls op on the Collection c (c is "-" for a call on the
\* Database alone)
LocksCall(g, op, c) ==
    /\ proc[g].op = "-"
    /\ proc' = [proc EXCEPT ![g] = [op |-> op, c |-> c, i |-> 1]]
    /\ UNCHANGED comp /\ LocksUntouched

\* mu.RLock() returns when no goroutine holds or waits for the write lock
RLockEnabled(g) ==
    /\ proc[g].op # "-"
    /\ NextOp(g).act = "RLock"
    /\ comp[NextOp(g).mu].writer = "none"
    /\ comp[NextOp(g).mu].pending = "none"

RLock(g) ==
    /\ RLockEnabled(g)
    /\ comp' = [comp EXCEPT ![NextOp(g).mu].readers = @ + 1]
    /\ proc' = Advance(proc, g)
    /\ LocksUntouched

\* mu.Lock() while read locks are held: g is the waiting writer from now on
LockWaitEnabled(g) ==
    /\ proc[g].op # "-"
    /\ NextOp(g).act = "Lock"
    /\ comp[NextOp(g).mu].writer = "none"
    /\ comp[NextOp(g).mu].pending = "none"
    /\ comp[NextOp(g).mu].readers > 0

LockWait(g) ==
    /\ LockWaitEnabled(g)
    /\ comp' = [comp EXCEPT ![NextOp(g).mu].pending = g]
    /\ UNCHANGED proc /\ LocksUntouched

\* mu.Lock() returns: the mutex is free, or g waited and the readers left
LockEnabled(g) ==
    /\ proc[g].op # "-"
    /\ NextOp(g).act = "Lock"
    /\ comp[NextOp(g).mu].writer = "none"
    /\ comp[NextOp(g).mu].readers = 0
    /\ comp[NextOp(g).mu].pending \in {"none", g}

Lock(g) ==
    /\ LockEnabled(g)
    /\ comp' = [comp EXCEPT ![NextOp(g).mu].writer = g, ![NextOp(g).mu].pending = "none"]
    /\ proc' = Advance(proc, g)
    /\ LocksUntouched

\* mu.Unlock()
Unlock(g) ==
    /\ proc[g].op # "-"
    /\ NextOp(g).act = "Unlock"
    /\ comp' = [comp EXCEPT ![NextOp(g).mu].writer = "none"]
    /\ proc' = Advance(proc, g)
    /\ LocksUntouched

\* mu.RUnlock()
RUnlock(g) ==
    /\ proc[g].op # "-"
    /\ NextOp(g).act = "RUnlock"
    /\ comp' = [comp EXCEPT ![NextOp(g).mu].readers = @ - 1]
    /\ proc' = Advance(proc, g)
    /\ LocksUntouched

NextLocks ==
    \/ \E g \in Goroutines, op \in CollectionOps, c \in Names : LocksCall(g, op, c)
    \/ \E g \in Goroutines, op \in DatabaseOps : LocksCall(g, op, "-")
    \/ \E g \in Goroutines : RLock(g)
    \/ \E g \in Goroutines : LockWait(g)
    \/ \E g \in Goroutines : Lock(g)
    \/ \E g \in Goroutines : Unlock(g)
    \/ \E g \in Goroutines : RUnlock(g)

SpecLocks == InitLocks /\ [][NextLocks]_vars


(***************************************************************************)
(* SpecGet: goroutines that each call Database.GetCollection once, the     *)
(* call taken in steps: db.mu.Lock, the lookup in db.collections, the      *)
(* creation and registration of a Collection, the return with the unlock.  *)
(*   proc[g]    where goroutine g is in its call (pc), the name it asked   *)
(*              for, and the Collection it got (res, 0 before the return   *)
(*              value is known)                                            *)
(*   comp       the goroutine that holds db.mu                             *)
(***************************************************************************)
GetCallers == {"g1", "g2", "g3"}

IdleGet == [pc |-> "idle", name |-> "-", res |-> 0]

InitGet ==
    /\ heap = NoHeap
    /\ objs = << >>
    /\ registry = [n \in Names |-> 0]
    /\ storage = NewStorage(<< >>)
    /\ last = Called("OpenDatabase", "ok", 0)
    /\ faults = 0
    /\ replay = NoReplay
    /\ disk = NoDisk
    /\ proc = [g \in GetCallers |-> IdleGet]
    /\ comp = [mu |-> "none"]

GetUntouched == UNCHANGED <<heap, storage, last, faults, replay, disk>>

\* a GetCollection that goes on without waiting for db.mu
M_GetLockUnguarded(g, name) ==
    /\ proc[g].pc = "idle"
    /\ comp' = [comp EXCEPT !.mu = g]
    /\ proc' = [proc EXCEPT ![g] = [pc |-> "lookup", name |-> name, res |-> 0]]
    /\ UNCHANGED <<objs, registry>> /\ GetUntouched

\* db.GetCollection(name): db.mu.Lock()
GetLock(g, name) ==
    /\ proc[g].pc = "idle"
    /\ comp.mu = "none"
    /\ comp' = [comp EXCEPT !.mu = g]
    /\ proc' = [proc EXCEPT ![g] = [pc |-> "lookup", name |-> name, res |-> 0]]
    /\ UNCHANGED <<objs, registry>> /\ GetUntouched

\* coll, exists := db.collections[name]
GetLookup(g) ==
    /\ proc[g].pc = "lookup"
    /\ proc' = IF registry[proc[g].name] # 0
               THEN [proc EXCEPT ![g].pc = "return", ![g].res = registry[proc[g].name]]
               ELSE [proc EXCEPT ![g].pc = "create"]
    /\ UNCHANGED <<objs, registry, comp>> /\ GetUntouched

\* coll := NewCollection(name, db.storage); db.collections[name] = coll
GetCreate(g) ==
    /\ proc[g].pc = "create"
    /\ objs' = Append(objs, NewCollection(proc[g].name))
    /\ registry' = [registry EXCEPT ![proc[g].name] = Len(objs) + 1]
    /\ proc' = [proc EXCEPT ![g].pc = "return", ![g].res = Len(objs) + 1]
    /\ UNCHANGED comp /\ GetUntouched

\* return coll, and the deferred db.mu.Unlock()
GetReturn(g) ==
    /\ proc[g].pc = "return"
    /\ comp' = [comp EXCEPT !.mu = "none"]
    /\ proc' = [proc EXCEPT ![g].pc = "returned"]
    /\ UNCHANGED <<objs, registry>> /\ GetUntouched

NextGet ==
    \/ \E g \in GetCallers, name \in Names : GetLock(g, name)
    \/ \E g \in GetCallers : GetLookup(g)
    \/ \E g \in GetCallers : GetCreate(g)
    \/ \E g \in GetCallers : GetReturn(g)

SpecGet == InitGet /\ [][NextGet]_vars


(***************************************************************************)
(* SpecMaint: OpenDatabase on a log of up to MaxMaintLines lines, then up  *)
(* to MaxCalls calls of GetCollection, DeleteMany, Compact, Stats, Close   *)
(* and OpenDatabase by one caller, no append failing.  last records the    *)
(* call that returned last: what it returned (res; stats for Stats), the   *)
(* memory and file it found (pre), for Compact the number of Compact calls *)
(* in a row it ends (n), and the number of calls made so far (k).          *)
(***************************************************************************)
MaintLines ==
    {Marshal(StorageRecord(x[1], x[2], x[3])) :
        x \in {y \in Names \X DocIds \X (Docs \cup {NilDoc}) :
                  y[3] \in {NilDoc, [id |-> Str(y[2]), v |-> "n:1"]}}}

MaintFiles == UNION {[1..n -> MaintLines] : n \in 0..MaxMaintLines}

NoStats == [collections |-> 0, documents |-> 0, collection_stats |-> [n \in {} |-> 0]]

InitMaint ==
    /\ \E f \in MaintFiles :
          /\ storage = NewStorage(f)
          /\ LET db == loadFromDisk(f)
             IN  heap = db.heap /\ objs = db.objs /\ registry = db.registry
    /\ last = [op |-> "OpenDatabase", res |-> "ok", n |-> 0, stats |-> NoStats, k |-> 0,
               pre |-> [heap |-> NoHeap, objs |-> << >>,
                        registry |-> [n \in Names |-> 0], file |-> << >>]]
    /\ faults = 0
    /\ replay = NoReplay
    /\ disk = NoDisk
    /\ proc = NoProc
    /\ comp = NoComp

\* the call op returns res
MaintReturns(op, res, n, stats) ==
    /\ last.k < MaxCalls
    /\ last' = [op |-> op, res |-> res, n |-> n, stats |-> stats, k |-> last.k + 1,
                pre |-> Pre]
    /\ UNCHANGED <<faults, aux>>

MaintGetCollection(name) ==
    /\ IF registry[name] # 0
       THEN UNCHANGED <<objs, registry>>
       ELSE /\ Len(objs) < MaxObj
            /\ objs' = Append(objs, NewCollection(name))
            /\ registry' = [registry EXCEPT ![name] = Len(objs) + 1]
    /\ MaintReturns("GetCollection", "ok", 0, NoStats)
    /\ UNCHANGED <<heap, storage>>

MaintDeleteMany(h, ids, filter) ==
    LET ret == DeleteMany(M, h, ids, filter, 0, "ok")
        c == Collect(ret.heap, ret.objs)
    IN  /\ heap' = c.heap
        /\ objs' = c.objs
        /\ storage' = ret.storage
        /\ MaintReturns("DeleteMany", ret.res, ret.n, NoStats)
        /\ UNCHANGED registry

MaintCompact(order, step) ==
    LET ret == Compact(M, registry, order, step)
    IN  /\ storage' = ret.s
        /\ MaintReturns("Compact", IF ret.ok THEN "ok" ELSE "ioerr",
                        IF last.op = "Compact" THEN last.n + 1 ELSE 1, NoStats)
        /\ UNCHANGED <<heap, objs, registry>>

MaintStats ==
    /\ MaintReturns("Stats", "ok", 0, Stats(objs, registry))
    /\ UNCHANGED <<heap, objs, registry, storage>>

MaintClose ==
    LET ret == Close(storage)
    IN  /\ storage' = ret.s
        /\ MaintReturns("Close", IF ret.ok THEN "ok" ELSE "ioerr", 0, NoStats)
        /\ UNCHANGED <<heap, objs, registry>>

\* OpenDatabase(path) once the file is closed
MaintOpenDatabase ==
    /\ ~storage.open
    /\ LET db == loadFromDisk(storage.file)
       IN  /\ heap' = db.heap
           /\ objs' = db.objs
           /\ registry' = db.registry
    /\ storage' = NewStorage(storage.file)
    /\ MaintReturns("OpenDatabase", "ok", 0, NoStats)

NextMaint ==
    \/ \E name \in Names : MaintGetCollection(name)
    \/ \E h \in Handles, filter \in Filters : \E ids \in Perms(IdsOf(h)) :
          MaintDeleteMany(h, ids, filter)
    \/ \E order \in CompactOrders(objs, registry), step \in CompactSteps :
          MaintCompact(order, step)
    \/ MaintStats
    \/ MaintClose
    \/ MaintOpenDatabase

SpecMaint == InitMaint /\ [][NextMaint]_vars


(***************************************************************************)
(* The calls of SpecOps: what the call found and what it left.             *)
(***************************************************************************)
\* the documents of the called Collection before and after the call
Before == HandleDocs(last.pre.heap, last.pre.objs, last.args.h)
After == HandleDocs(heap, objs, last.args.h)

\* the records of the lines the call appended, in order
Appended ==
    [i \in 1..(Len(storage.file) - Len(last.pre.file)) |->
        Unmarshal(storage.file[Len(last.pre.file) + i])]

\* the ids of the documents the call found that match its filter
MatchingIds == {id \in DocIds : Before[id] # NilDoc /\ MatchesFilter(Before[id], last.args.filter)}

\* the ids under which the call changed, added or removed a document
Changed == {id \in DocIds : After[id] # Before[id]}

\* C12: an Update or UpdateMany whose partial carries an id leaves every
\* document under the key it had, the id field of each document it merged
\* equal to that key, no entry under another key, and every record it
\* appends carries the key as ID and as the document's id.
C12_UpdateKeepsId ==
    (last.op \in {"Update", "UpdateMany"} /\ last.args.update.id # Absent) =>
        /\ \A id \in DocIds : (After[id] = NilDoc) <=> (Before[id] = NilDoc)
        /\ \A id \in Changed : After[id].id = Str(id)
        /\ \A i \in DOMAIN Appended :
              /\ Appended[i].Collection = objs[last.args.h].name
              /\ Before[Appended[i].ID] # NilDoc
              /\ Appended[i].Doc # NilDoc
              /\ Appended[i].Doc.id = Str(Appended[i].ID)

C12_Witness ==
    /\ last.op = "Update" /\ last.res = "ok"
    /\ last.args.id = "7" /\ last.args.update.id = "s:u1"
    /\ After["7"].id = "s:7"
    /\ After["u1"] = NilDoc
    /\ Len(Appended) = 1

\* C13, as stated: after a successful Update(id, partial) the document is
\* the previous one overridden key by key with partial, keys absent from
\* partial keeping their values; one record holding that document is
\* appended and replay resolves id to it.
C13_UpdateOverrides ==
    (last.op = "Update" /\ last.res = "ok") =>
        LET id == last.args.id
            name == objs[last.args.h].name
        IN  /\ After[id] = [key \in Keys |->
                                IF last.args.update[key] # Absent THEN last.args.update[key]
                                ELSE Before[id][key]]
            /\ Appended = <<StorageRecord(name, id, After[id])>>
            /\ ReopenedDocs(storage.file)[name][id] = After[id]

\* C13, amended: after a successful Update(id, partial) the document is the
\* previous one overridden key by key with partial on every key but the
\* identifier field, which holds id as a string whatever it held before and
\* whatever partial carries; one record holding that document is appended
\* and replay resolves id to it.
C13_UpdateMerges ==
    (last.op = "Update" /\ last.res = "ok") =>
        LET id == last.args.id
            name == objs[last.args.h].name
        IN  /\ After[id] = [key \in Keys |->
                                IF key = "id" THEN Str(id)
                                ELSE IF last.args.update[key] # Absent THEN last.args.update[key]
                                ELSE Before[id][key]]
            /\ Appended = <<StorageRecord(name, id, After[id])>>
            /\ ReopenedDocs(storage.file)[name][id] = After[id]

C13_Witness ==
    /\ last.op = "Update" /\ last.res = "ok"
    /\ last.args.update.id = "s:u1" /\ last.args.id = "7"
    /\ Before["7"].v = "n:1"
    /\ After["7"] = [id |-> "s:7", v |-> "n:1"]
    /\ Len(last.pre.file) = MaxOpsLines

\* C14: an Update or Delete of an id the collection does not hold returns
\* the not-found error, appends nothing to the log and leaves the documents
\* of every collection as they were.
C14_AbsentIdNotFound ==
    (last.op \in {"Update", "Delete"} /\ Before[last.args.id] = NilDoc) =>
        /\ last.res = "notfound"
        /\ storage.file = last.pre.file
        /\ AllDocs(heap, objs) = AllDocs(last.pre.heap, last.pre.objs)
        /\ registry = last.pre.registry

C14_Witness ==
    /\ last.op = "Delete" /\ last.res = "notfound"
    /\ last.args.id = "u1"
    /\ Before["u1"] = NilDoc /\ Before["7"] # NilDoc
    /\ Len(last.pre.file) = MaxOpsLines

\* C15: an UpdateMany(filter, partial) that meets no I/O failure merges
\* partial into exactly the documents that matched filter when the call
\* began, returns their number, appends one record for each of them and no
\* other, and leaves the documents that did not match as they were, also
\* when partial changes the field that filter tests.
C15_UpdateManyMatching ==
    (last.op = "UpdateMany" /\ last.res = "ok") =>
        /\ last.n = Cardinality(MatchingIds)
        /\ \A id \in MatchingIds : After[id] = Merge(Before[id], last.args.update, id)
        /\ \A id \in DocIds \ MatchingIds : After[id] = Before[id]
        /\ Len(Appended) = Cardinality(MatchingIds)
        /\ \A id \in MatchingIds :
              \E i \in DOMAIN Appended :
                 Appended[i] = StorageRecord(objs[last.args.h].name, id, After[id])
        /\ \A h \in Handles \ {last.args.h} :
              HandleDocs(heap, objs, h) = HandleDocs(last.pre.heap, last.pre.objs, h)

C15_Witness ==
    /\ last.op = "UpdateMany" /\ last.res = "ok" /\ last.n = 1
    /\ last.args.filter.v = "n:1" /\ last.args.update.v = "n:2"
    /\ MatchingIds = {"7"}
    /\ After["7"].v = "n:2"
    /\ Before["u1"] # NilDoc /\ After["u1"] = Before["u1"]

\* C16: when an append fails partway through UpdateMany or DeleteMany, the
\* count returned with the error is the number of records the call appended
\* successfully and also the number of documents whose in-memory state the
\* call changed.  Stated here by what the equality implies whether or not a
\* merge altered its document: no more documents differ in memory than the
\* count says, and every counted document has its line in the log.
C16_PartialCount ==
    (last.op \in {"UpdateMany", "DeleteMany"} /\ last.res = "ioerr") =>
        /\ Cardinality(Changed) <= last.n
        /\ last.n <= Len(Appended)

\* C17: a DeleteMany(filter) that meets no I/O failure removes exactly the
\* documents that match filter, returns their number, appends one tombstone
\* for each of them and no other record, and leaves the other documents
\* untouched; with the empty filter it returns the Count() of before the
\* call and leaves Count() at 0.
C17_DeleteManyMatching ==
    (last.op = "DeleteMany" /\ last.res = "ok") =>
        /\ last.n = Cardinality(MatchingIds)
        /\ \A id \in MatchingIds : After[id] = NilDoc
        /\ \A id \in DocIds \ MatchingIds : After[id] = Before[id]
        /\ Len(Appended) = Cardinality(MatchingIds)
        /\ \A id \in MatchingIds :
              \E i \in DOMAIN Appended :
                 Appended[i] = StorageRecord(objs[last.args.h].name, id, NilDoc)
        /\ \A h \in Handles \ {last.args.h} :
              HandleDocs(heap, objs, h) = HandleDocs(last.pre.heap, last.pre.objs, h)
        /\ (\A key \in Keys : last.args.filter[key] = Absent) =>
              /\ last.n = CountOf(last.pre.objs, last.args.h)
              /\ CountOf(objs, last.args.h) = 0

C17_Witness ==
    /\ last.op = "DeleteMany" /\ last.res = "ok" /\ last.n = 1
    /\ last.args.filter.v = "n:1"
    /\ MatchingIds = {"7"}
    /\ After["7"] = NilDoc
    /\ Before["u1"] # NilDoc /\ After["u1"] = Before["u1"]

\* C18: in a history without I/O failure, a DropCollection(name) on a
\* registered name appends one tombstone for every document the collection
\* held and nothing else, and removes name from the registry, so that the
\* reopened database has no document under name; on an unknown name it
\* returns success, appends nothing and changes nothing.
C18_DropCollection ==
    [][(last'.op = "DropCollection" /\ faults' = 0) =>
          LET dropped == {n \in Names : registry[n] # 0 /\ registry'[n] = 0}
              new == [i \in 1..(Len(storage'.file) - Len(storage.file)) |->
                         Unmarshal(storage'.file[Len(storage.file) + i])]
          IN  /\ last'.res = "ok"
              /\ \A n \in dropped :
                    /\ Len(new) = CountOf(objs, registry[n])
                    /\ \A id \in IdsOf(registry[n]) :
                          \E i \in DOMAIN new : new[i] = StorageRecord(n, id, NilDoc)
                    /\ ReopenedDocs(storage'.file)[n] = EmptyDocs
              /\ dropped = {} =>
                    /\ storage' = storage
                    /\ registry' = registry
                    /\ AllDocs(heap', objs') = AllDocs(heap, objs)]_vars

\* the lines of a file that hold a record: not empty, parseable
RecordLines(lines) ==
    SelectSeq(lines, LAMBDA l : l # EmptyLine /\ l # LongLine /\ Parseable(l))

\* C21: LoadAll returns exactly the record lines of the file that parse, in
\* file order; a line that does not parse, wherever it stands, is skipped
\* and does not abort the load, and OpenDatabase succeeds on such a file.
C21_LoadSkipsCorrupt ==
    /\ replay.pc \in {"loaded", "failed", "done"} =>
          /\ replay.ok
          /\ replay.records =
                [i \in DOMAIN RecordLines(storage.file) |-> Unmarshal(RecordLines(storage.file)[i])]
    /\ last.op = "OpenDatabase" => last.res = "ok"

\* C22: Appends that run concurrently, whichever Collections make them,
\* exclude one another: the file is a sequence of whole lines (after the
\* first bytes of a line come the rest of that line, never bytes of another
\* record), and the lines of each Collection stand in the order in which the
\* Collection made its writes.
C22_AppendsSerialized ==
    /\ Cardinality({w \in Writers : proc[w].pc \in {"Write", "WriteTail", "Sync"}}) <= 1
    /\ \A i \in DOMAIN disk.bytes :
          IF disk.bytes[i].part = "head"
          THEN i < Len(disk.bytes) =>
                 disk.bytes[i + 1] = [disk.bytes[i] EXCEPT !.part = "tail"]
          ELSE i > 1 /\ disk.bytes[i - 1] = [disk.bytes[i] EXCEPT !.part = "head"]
    /\ \A i, j \in DOMAIN disk.bytes :
          (i < j /\ disk.bytes[i].c = disk.bytes[j].c) => disk.bytes[i].k <= disk.bytes[j].k

C22_Witness ==
    /\ Len(disk.bytes) = 5
    /\ disk.bytes[1].c = "a" /\ disk.bytes[3].c = "b"
    /\ disk.bytes[5] = [c |-> "a", k |-> 2, part |-> "head"]
    /\ \E w \in Writers : proc[w].pc = "Append" /\ proc[w].c = "b"

\* C23: while an Insert, Update or Delete is in progress on a Collection
\* (its lock is held), no other operation reads or changes the document map
\* of that Collection: no second write begins on it, and Database.Compact
\* does not range over it.
C23_WriteExcludesReaders ==
    [][\A n \in Names :
          /\ (comp.pc = "range" /\ n \in comp.left /\ n \notin comp'.left) => ~Racing(n)
          /\ \A w \in Writers :
                (proc[w].pc = "idle" /\ proc'[w].pc = "append" /\ proc'[w].h = registry[n])
                    => ~Racing(n)]_vars

\* C24: the records that Database.Compact hands to Storage.Compact are a
\* snapshot of committed state.  Stated by what that implies: every record
\* handed over is of a document whose Append has been made, none is of an
\* Insert that is still in progress or that was rolled back.
C24_CompactSnapshot ==
    [][(comp.pc = "range" /\ comp.left = {} /\ last'.op = "Compact" /\ comp'.pc = "idle") =>
          \A i \in DOMAIN comp.snap :
             \E j \in DOMAIN LoadAll(storage.file) :
                /\ LoadAll(storage.file)[j].Collection = comp.snap[i].Collection
                /\ LoadAll(storage.file)[j].ID = comp.snap[i].ID]_vars

\* C25: reads run together and every operation completes: a Find with the
\* empty filter that has begun returns in the end, also when a write on the
\* same Collection runs at the same time.
C25_FindReturns ==
    \A p \in Readers :
        [](proc[p].pc = "FindAll" => <>(proc[p].pc \in {"returned", "done"}))

\* C26: Find(filter) returns exactly the documents of the Collection for
\* which MatchesFilter holds, each once, none missing and none extra; with
\* the empty filter these are all its documents, as FindAll returns them;
\* the Collection and the log are left as they were.
C26_FindExact ==
    [][\A p \in Readers :
          (proc[p].pc \in {"collect", "range"} /\ proc'[p].pc = "RUnlock") =>
              LET matching == {id \in IdsOf(1) :
                                  MatchesFilter(heap[objs[1].documents[id]], proc[p].filter)}
                  result == proc'[p].result
              IN  /\ {result[i] : i \in DOMAIN result} = {objs[1].documents[id] : id \in matching}
                  /\ Len(result) = Cardinality(matching)
                  /\ proc[p].filter = EmptyFilter => matching = IdsOf(1)
                  /\ UNCHANGED <<heap, objs, registry, storage>>]_vars

C26_Witness ==
    \E p \in Readers :
        /\ proc[p].pc = "RUnlock"
        /\ proc[p].filter.v = "n:1"
        /\ Len(proc[p].result) = 1
        /\ heap[proc[p].result[1]].v = "n:1"
        /\ \E id \in IdsOf(1) : heap[objs[1].documents[id]].v = "n:2"

\* the documents a returned slice holds
ResultDocs(hp, pr, p) == [i \in DOMAIN pr[p].result |-> hp[pr[p].result[i]]]

\* C27: FindAll returns one entry per document of the Collection, and the
\* entries are copies: a caller that changes a returned document does not
\* change the document the Collection stores, and a later Update does not
\* change a slice returned before.
C27_FindAllCopies ==
    [][\A p \in Readers :
          /\ (proc[p].pc = "collect" /\ proc'[p].pc = "RUnlock") =>
                Len(proc'[p].result) = CountOf(objs, 1)
          /\ (proc[p].filter = EmptyFilter /\ proc[p].pc = "returned" /\ proc'[p].pc = "done") =>
                HandleDocs(heap', objs', 1) = HandleDocs(heap, objs, 1)
          /\ (proc[p].filter = EmptyFilter /\ proc[p].pc = "returned" /\ proc'[p] = proc[p]) =>
                ResultDocs(heap', proc', p) = ResultDocs(heap, proc, p)]_vars

\* C28: MatchesFilter(doc, filter) is true exactly when every key of filter
\* is in doc with a value that matches: the empty filter matches every
\* document, a key of filter that doc lacks makes it false, and the order
\* in which the keys are examined does not matter.
C28_MatchesConjunction ==
    last.op = "MatchesFilter" =>
        /\ last.res = (\A key \in FilterKeys(comp.filter) :
                          /\ comp.doc[key] # Absent
                          /\ valuesMatch(comp.doc[key], comp.filter[key]))
        /\ last.res = MatchesFilter(comp.doc, comp.filter)
        /\ FilterKeys(comp.filter) = {} => last.res
        /\ (\E key \in FilterKeys(comp.filter) : comp.doc[key] = Absent) => ~last.res

C28_Witness ==
    /\ last.op = "MatchesFilter" /\ ~last.res
    /\ comp.keys = <<"id", "v">>
    /\ comp.doc.id = comp.filter.id
    /\ comp.doc.v = Absent

\* C29: two values match when they are equal in structure, and otherwise
\* when their textual forms are equal: the number 7 matches the filter
\* values 7, 7.0 and "7" and no other; the relation is symmetric.
C29_ValuesMatchCoerces ==
    last.op = "valuesMatch" =>
        /\ last.res = (comp.docValue = comp.filterValue
                          \/ Sprint(comp.docValue) = Sprint(comp.filterValue))
        /\ comp.docValue = "n:7" => (last.res <=> comp.filterValue \in {"n:7", "f:7", "s:7"})
        /\ last.res = valuesMatch(comp.filterValue, comp.docValue)

C29_Witness ==
    /\ last.op = "valuesMatch" /\ last.res
    /\ comp.docValue = "n:7" /\ comp.filterValue = "s:7"

\* the comparison rule: by number when both values are numbers, else by text
ComparesAs(a, b) ==
    IF a.t = "num" /\ b.t = "num"
    THEN (IF a.x < b.x THEN -1 ELSE IF a.x > b.x THEN 1 ELSE 0)
    ELSE CompareStrings(Digits(a.x), Digits(b.x))

\* C30: when every document has the sort field, SortDocuments leaves a
\* permutation of the slice in which every two neighbours are ordered per
\* direction under the comparison rule (by number when both are numbers,
\* else by text, numbers mixed with strings included), and documents that
\* compare equal stay in the order they had.
C30_SortOrdersNeighbours ==
    (last.op = "SortDocuments" /\ \A i \in DOMAIN comp.docs : comp.docs[i].f # NoField) =>
        /\ Len(last.docs) = Len(comp.docs)
        /\ {last.docs[i] : i \in DOMAIN last.docs} = {comp.docs[i] : i \in DOMAIN comp.docs}
        /\ \A i \in 1..(Len(last.docs) - 1) :
              IF comp.direction = "desc"
              THEN ComparesAs(last.docs[i].f, last.docs[i + 1].f) >= 0
              ELSE ComparesAs(last.docs[i].f, last.docs[i + 1].f) <= 0
        /\ \A i, j \in DOMAIN last.docs :
              (i < j /\ ComparesAs(last.docs[i].f, last.docs[j].f) = 0) =>
                  last.docs[i].n < last.docs[j].n

C30_Witness ==
    /\ last.op = "SortDocuments"
    /\ comp.direction = "asc"
    /\ [i \in DOMAIN comp.docs |-> comp.docs[i].f] =
          <<[t |-> "str", x |-> 9], [t |-> "num", x |-> 10], [t |-> "num", x |-> 9],
            [t |-> "str", x |-> 5]>>
    /\ last.docs # comp.docs

\* C38: for any slice, documents lacking the sort field included,
\* SortDocuments returns and leaves a permutation of the slice in which
\* every document lacking the field is at the index it had, and no document
\* having the field has moved across a document lacking it.
C38_MissingFieldStays ==
    last.op = "SortDocuments" =>
        /\ Len(last.docs) = Len(comp.docs)
        /\ {last.docs[i] : i \in DOMAIN last.docs} = {comp.docs[i] : i \in DOMAIN comp.docs}
        /\ \A i \in DOMAIN comp.docs :
              comp.docs[i].f = NoField => last.docs[i] = comp.docs[i]
        /\ \A i, j \in DOMAIN comp.docs :
              last.docs[j] = comp.docs[i] =>
                  \A k \in DOMAIN comp.docs :
                      ((i <= k /\ k <= j) \/ (j <= k /\ k <= i)) /\ k # i =>
                          comp.docs[k].f # NoField

C38_Witness ==
    /\ last.op = "SortDocuments"
    /\ comp.direction = "asc"
    /\ [i \in DOMAIN comp.docs |-> comp.docs[i].f] =
          <<[t |-> "num", x |-> 10], [t |-> "num", x |-> 9], NoField,
            [t |-> "num", x |-> 9]>>
    /\ [i \in DOMAIN last.docs |-> last.docs[i].n] = <<2, 1, 3, 4>>

(***************************************************************************)
(* C35: Storage.Compact forces the contents of the temporary file to       *)
(* stable storage before it renames the file over the original (write all  *)
(* records, flush, rename): from the rename on the file at the database    *)
(* path is wholly on stable storage, and when the machine stops after the  *)
(* rename the file holds every record of the snapshot.                     *)
(***************************************************************************)
C35_FlushBeforeRename ==
    /\ disk.pc = "Reopen" => disk.stable = Len(storage.file)
    /\ (disk.pc = "crashed" /\ disk.phase = "after") => storage.file = disk.snap

(***************************************************************************)
(* C36: when Storage.Compact returns an error from a step before the       *)
(* rename, the Storage stays usable: the file at the path holds the lines  *)
(* it held when Compact was called, a following Append succeeds and adds   *)
(* its line at the end of them, and a following LoadAll returns the        *)
(* records of those lines.                                                 *)
(***************************************************************************)
C36_UsableAfterFailedCompact ==
    [][(disk.op = "Compact" /\ disk.phase = "before" /\ disk'.pc = "idle") =>
          /\ storage'.file = disk.pre
          /\ \A record \in StorageRecords :
                /\ StorageAppend(storage', record, "ok").ok
                /\ StorageAppend(storage', record, "ok").s.file =
                      Append(disk.pre, Marshal(record))
          /\ LoadAllOn(storage').ok
          /\ LoadAllOn(storage').records = LoadAll(disk.pre)]_vars

(***************************************************************************)
(* C34: in the Node bridge build of Storage.Compact the file at the        *)
(* database path is untouched until the rename: at every step inside the   *)
(* call, and when the process stops there, the path holds a file, and the  *)
(* file holds the complete log it held when Compact was called or the      *)
(* complete snapshot.                                                      *)
(***************************************************************************)
C34_NodeCompactKeepsPath ==
    disk.pc \in {"Write", "Unlink", "Rename", "crashed"} =>
        /\ disk.exists
        /\ disk.path = disk.pre \/ disk.path = disk.snap

\* the mutexes goroutine g holds: those it has locked in its call and not
\* unlocked since
HeldBy(g) ==
    {m \in Mutexes :
        \E j \in 1..(proc[g].i - 1) :
            /\ LockPlan(proc[g].op, proc[g].c)[j].mu = m
            /\ LockPlan(proc[g].op, proc[g].c)[j].act \in {"Lock", "RLock"}
            /\ \A k \in (j + 1)..(proc[g].i - 1) :
                  ~(/\ LockPlan(proc[g].op, proc[g].c)[k].mu = m
                    /\ LockPlan(proc[g].op, proc[g].c)[k].act \in {"Unlock", "RUnlock"})}

\* db.mu before the c.mu of a Collection before s.mu
LockRank(m) == IF m = "db" THEN 1 ELSE IF m = "s" THEN 3 ELSE 2

\* goroutine g can make its next lock operation
CanStep(g) ==
    /\ proc[g].op # "-"
    /\ \/ NextOp(g).act \in {"Unlock", "RUnlock"}
       \/ RLockEnabled(g)
       \/ LockWaitEnabled(g)
       \/ LockEnabled(g)

(***************************************************************************)
(* C37: a goroutine that takes a lock holds only locks that come before it *)
(* in the order database registry lock, collection lock, storage lock, and *)
(* under every interleaving of Insert, Update, Delete, UpdateMany,         *)
(* DeleteMany, FindByID, Count, CountWhere, GetCollection, DropCollection, *)
(* Compact, Stats and Close there is no deadlock: in every state the       *)
(* goroutines can reach, while calls are in progress one of them can make  *)
(* its next step.                                                          *)
(***************************************************************************)
C37_NoDeadlock ==
    /\ \A g \in Goroutines :
          (proc[g].op # "-" /\ NextOp(g).act \in {"Lock", "RLock"}) =>
              \A m \in HeldBy(g) : LockRank(m) < LockRank(NextOp(g).mu)
    /\ (\E g \in Goroutines : proc[g].op # "-") => \E g \in Goroutines : CanStep(g)

\* DropCollection holds the three locks in its Delete on "a"; a Count on "a"
\* is blocked behind that Delete and an Insert on "b" behind its Append
C37_Witness ==
    /\ proc["g1"].op = "DropCollection" /\ proc["g1"].c = "a" /\ proc["g1"].i = 4
    /\ proc["g2"].op = "Count" /\ proc["g2"].c = "a" /\ proc["g2"].i = 1
    /\ ~CanStep("g2")
    /\ proc["g3"].op = "Insert" /\ proc["g3"].c = "b" /\ proc["g3"].i = 2
    /\ ~CanStep("g3")

(***************************************************************************)
(* C32: GetCollection(name) always returns a Collection, and under every   *)
(* interleaving of concurrent GetCollection calls (no DropCollection) the  *)
(* callers that asked for the same name got the same Collection object,    *)
(* the one registered under the name: no name ever has two Collection      *)
(* objects.                                                                *)
(***************************************************************************)
C32_OneCollectionPerName ==
    /\ \A g \in GetCallers :
          proc[g].pc = "returned" =>
              /\ proc[g].res \in DOMAIN objs
              /\ objs[proc[g].res].name = proc[g].name
              /\ registry[proc[g].name] = proc[g].res
    /\ \A g, h \in GetCallers :
          (proc[g].pc = "returned" /\ proc[h].pc = "returned" /\ proc[g].name = proc[h].name)
              => proc[g].res = proc[h].res
    /\ \A i, j \in DOMAIN objs : objs[i].name = objs[j].name => i = j

\* two callers asked for "a" and got the same Collection, the third asked
\* for "b": two Collection objects exist
C32_Witness ==
    /\ proc["g1"].pc = "returned" /\ proc["g1"].name = "a"
    /\ proc["g2"].pc = "returned" /\ proc["g2"].name = "a"
    /\ proc["g3"].pc = "returned" /\ proc["g3"].name = "b"
    /\ proc["g1"].res = proc["g2"].res
    /\ Len(objs) = 2

(***************************************************************************)
(* C31: when Database.Compact is called twice with no write in between,    *)
(* each of the two calls leaves the documents and the counts in memory as  *)
(* they were, and the log after the second call replays to the state that  *)
(* the log after the first call replays to.                                *)
(***************************************************************************)
C31_CompactTwice ==
    [][(last.op = "Compact" /\ last'.op = "Compact") =>
          /\ AllDocs(heap, objs) = AllDocs(last.pre.heap, last.pre.objs)
          /\ registry = last.pre.registry
          /\ AllDocs(heap', objs') = AllDocs(heap, objs)
          /\ registry' = registry
          /\ Stats(objs', registry') = Stats(last.pre.objs, last.pre.registry)
          /\ ReopenedDocs(storage'.file) = ReopenedDocs(storage.file)]_vars

\* the second Compact in a row has returned; both succeeded, and the second
\* wrote the two documents in another order than the first
C31_Witness ==
    /\ last.op = "Compact" /\ last.n = 2 /\ last.res = "ok"
    /\ Len(storage.file) = 2
    /\ Len(last.pre.file) = 2
    /\ storage.file # last.pre.file
    /\ storage.open

(***************************************************************************)
(* C33: Stats changes nothing (the registry, the documents of every        *)
(* Collection and the log are as before the call), and with no other call  *)
(* in progress the collection count it returns is the number of registered *)
(* collections, each per-collection count is the Count() of that           *)
(* Collection, and the total is the sum of the per-collection counts.      *)
(***************************************************************************)
C33_StatsReadOnly ==
    last.op = "Stats" =>
        /\ heap = last.pre.heap
        /\ objs = last.pre.objs
        /\ registry = last.pre.registry
        /\ storage.file = last.pre.file
        /\ last.stats.collections = Cardinality(ListCollections(registry))
        /\ DOMAIN last.stats.collection_stats = ListCollections(registry)
        /\ \A n \in ListCollections(registry) :
              last.stats.collection_stats[n] = CountOf(objs, registry[n])
        /\ last.stats.documents = Cardinality(LivePairs(objs, registry))

\* Stats on a database with the two documents of "a" and the empty "b"
C33_Witness ==
    /\ last.op = "Stats"
    /\ last.stats.collections = 2
    /\ last.stats.documents = 2
    /\ registry["b"] # 0
    /\ CountOf(objs, registry["b"]) = 0

(***************************************************************************)
(* C40: the collection names that ListCollections and Stats report before  *)
(* Close are the names they report after the same file is opened again,    *)
(* also when GetCollection was called on a new name and when every         *)
(* document of a collection has been deleted.                              *)
(***************************************************************************)
C40_NamesSurviveRestart ==
    [][(last.op = "Close" /\ last'.op = "OpenDatabase") =>
          /\ ListCollections(registry') = ListCollections(registry)
          /\ DOMAIN Stats(objs', registry').collection_stats =
                DOMAIN Stats(objs, registry).collection_stats]_vars

(***************************************************************************)
(* C39: DropCollection(name) and writes made through a Collection handle   *)
(* for name that was obtained earlier, in whatever order they run: once    *)
(* every call has returned and no append has failed, the documents         *)
(* reachable through the registry for name are those the log holds for     *)
(* name.  No document is in the log and unreachable from the registry, and *)
(* none is reachable and absent (tombstoned) in the log.                   *)
(***************************************************************************)
C39_DropAndHandleWrites ==
    faults = 0 =>
        \A n \in Names, id \in DocIds :
            (ReopenedDocs(storage.file)[n][id] # NilDoc) <=> (RegistryDocs[n][id] # NilDoc)

====
